---- MODULE Spec2Model ----
(***************************************************************************)
(* DockMate: the reactive TUI core (package tui).  The application state   *)
(* is the record m (type model); Update(m, msg) returns the new state and  *)
(* the commands it dispatches; commands in flight complete in any order    *)
(* and deliver one message each.                                           *)
(***************************************************************************)
EXTENDS Integers, Sequences, FiniteSets, Bags, TLC

VARIABLES
    m,         \* the model value held by the event loop
    inflight,  \* bag of dispatched commands that have not delivered yet
    lastMsg,   \* the message processed by the latest Update (recorded runs)
    lastCmds,  \* the commands returned by the latest Update (recorded runs)
    lastIO,    \* the I/O the latest Update performed itself (recorded runs)
    treeNav,   \* which definition of moveCursorUpTree/DownTree is compiled
    cfgFile,   \* the persisted settings file (NoFile or a Config)
    quit,      \* QuitMsg was delivered: the program has ended
    ghost,     \* bookkeeping of a recorded run: commands dispatched and delivered
    call       \* a function applied on its own: its name, argument and result

vars == <<m, inflight, lastMsg, lastCmds, lastIO, treeNav, cfgFile, quit, ghost, call>>

----------------------------------------------------------------------------
(* Layout sizing constants *)
HEADER_HEIGHT == 8
CONTAINER_ROW_HEIGHT == 1
LOG_PANEL_HEIGHT == 15
INFO_PANEL_HEIGHT == 16
InitialPerPage == 12
LastColumn == 8
LastSettingsRow == 11
MaxRefreshInterval == 300

(* Bounds of the model *)
MaxInFlight == 2      \* fetches and actions in flight at once
MaxTicks == 3         \* tick timers pending at once
MaxDispatch == 4      \* commands counted by the bookkeeping
MaxDrift == 1         \* total distance of the edited percentages from the defaults
MaxInterval == 3      \* largest refresh interval an edit may reach

----------------------------------------------------------------------------
(* Generic helpers *)
Max(a, b) == IF a > b THEN a ELSE b
Min(a, b) == IF a < b THEN a ELSE b

\* Go integer division truncates toward zero
GoDiv(a, b) == IF a >= 0 THEN a \div b ELSE -((-a) \div b)

RECURSIVE SumSeq(_)
SumSeq(s) == IF s = <<>> THEN 0 ELSE Head(s) + SumSeq(Tail(s))

RECURSIVE BagOfSeq(_)
BagOfSeq(s) == IF s = <<>> THEN EmptyBag ELSE SetToBag({Head(s)}) (+) BagOfSeq(Tail(s))

\* the one element of a singleton set: The({e(x) : x \in {v}}) is e computed
\* on the value of v, as a Go statement computes on the value a variable holds
The(S) == CHOOSE x \in S : TRUE

Range(s) == {s[i] : i \in DOMAIN s}

----------------------------------------------------------------------------
(* Modes, sort columns, runtimes *)
modeNormal == "Normal"
modeColumnSelect == "ColumnSelect"
modeLogs == "Logs"
modeInfo == "Info"
modeSettings == "Settings"
modeComposeView == "ComposeView"
modeHelp == "Help"

sortByID == 0
sortByName == 1
sortByMemory == 2
sortByCPU == 3
sortByNetIO == 4
sortByBlockIO == 5
sortByImage == 6
sortByStatus == 7
sortByPorts == 8

RuntimeDocker == "docker"
RuntimePodman == "podman"
ShellOptions == <<"/bin/sh", "/bin/bash", "/bin/zsh", "/bin/ash">>

StandaloneName == "Standalone Containers"

----------------------------------------------------------------------------
(* Containers.  A container carries its id (a positive number; 0 is the    *)
(* empty id), its normalized state and its compose project ("" if none).   *)
(* The display fields the comparator reads are functions of these.         *)
Container(id, state, project) == [ID |-> id, State |-> state, ComposeProject |-> project]
NoContainer == Container(0, "", "")

\* the key lessContainer compares for sort column col
SortKey(col, c) ==
    CASE col = sortByID      -> c.ID
      [] col = sortByName    -> 10 - c.ID                             \* names rank opposite to ids
      [] col = sortByMemory  -> IF c.State = "running" THEN c.ID ELSE 0  \* parsePercent("─") = 0
      [] col = sortByCPU     -> IF c.State = "running" THEN 1 ELSE 0
      [] col = sortByNetIO   -> IF c.State = "running" THEN c.ID ELSE 0  \* parseNetIO("─") = 0
      [] col = sortByBlockIO -> IF c.State = "running" THEN 1 ELSE 0
      [] col = sortByImage   -> c.ID % 2
      [] col = sortByStatus  -> IF c.State = "running" THEN 1 ELSE 0  \* "exited ..." < "up ..."
      [] col = sortByPorts   -> 0
      [] OTHER               -> c.ID

lessContainer(col, a, b) == SortKey(col, a) < SortKey(col, b)

\* the less function handed to sort.Slice
sliceLess(col, asc, a, b) == IF asc THEN lessContainer(col, a, b) ELSE ~lessContainer(col, a, b)

\* sort.Slice on a slice of at most 12 elements: insertion sort with less
RECURSIVE InsertLeft(_, _, _, _)
InsertLeft(s, j, col, asc) ==
    IF j > 1 /\ sliceLess(col, asc, s[j], s[j - 1])
    THEN The({InsertLeft(t, j - 1, col, asc) :
                 t \in {[s EXCEPT ![j] = s[j - 1], ![j - 1] = s[j]]}})
    ELSE s

RECURSIVE InsertionSortFrom(_, _, _, _)
InsertionSortFrom(s, i, col, asc) ==
    IF i > Len(s) THEN s
    ELSE The({InsertionSortFrom(t, i + 1, col, asc) : t \in {InsertLeft(s, i, col, asc)}})

sortSlice(s, col, asc) == The({InsertionSortFrom(t, 2, col, asc) : t \in {s}})

----------------------------------------------------------------------------
(* Pointers to containers.  A treeRow and infoContainer hold a pointer     *)
(* into m.containers (src = "") or into a project's Containers slice       *)
(* (src = project name).  A pointer is live while its slice is the one the *)
(* model holds: an in-place sort changes what it points at; once the slice *)
(* is replaced the pointer keeps the old element.                          *)
NilPtr == [null |-> TRUE, src |-> "", idx |-> 0, live |-> FALSE, val |-> NoContainer]
PtrTo(src, idx, val) == [null |-> FALSE, src |-> src, idx |-> idx, live |-> TRUE, val |-> val]

\* the slice a pointer with source src points into
SliceOf(mm, src) == IF src = "" THEN mm.containers ELSE mm.projects[src]

\* the pointer after the slices of mm were sorted in place
Resolve(mm, p) ==
    IF p.live /\ ~p.null THEN [p EXCEPT !.val = SliceOf(mm, p.src)[p.idx]] ELSE p

\* the pointer after the slice it points into was replaced by a new one
Detach(p, intoContainers) ==
    IF p.live /\ ((p.src = "") = intoContainers) THEN [p EXCEPT !.live = FALSE] ELSE p

(* Rows of the flattened tree *)
HeaderRow(name, running, total) ==
    [isProject |-> TRUE, projectName |-> name, container |-> NilPtr,
     indent |-> 0, running |-> running, total |-> total]
ContainerRow(ptr) ==
    [isProject |-> FALSE, projectName |-> "", container |-> ptr,
     indent |-> 1, running |-> 0, total |-> 0]

\* every pointer of the model re-read after an in-place sort
ResolveAll(sorted) ==
    The({[mm EXCEPT !.flatList = [i \in 1..Len(mm.flatList) |->
                                    [mm.flatList[i] EXCEPT !.container = Resolve(mm, @)]],
                    !.infoContainer = Resolve(mm, @)] : mm \in {sorted}})

\* every pointer of the model after m.containers (or m.projects) was replaced
DetachAll(mm, intoContainers) ==
    [mm EXCEPT !.flatList = [i \in 1..Len(mm.flatList) |->
                                [mm.flatList[i] EXCEPT !.container = Detach(@, intoContainers)]],
               !.infoContainer = Detach(@, intoContainers)]

----------------------------------------------------------------------------
(* Compose projects: m.projects maps a project name to its member slice.   *)
(* ProjectOrder lists the project names in lexicographic order.            *)
ProjectOrder == <<"api", "web">>
ProjectNames == Range(ProjectOrder)
NoProjects == [n \in {} |-> <<>>]
NoExpanded == [n \in {} |-> TRUE]

\* m.expandedProjects[name]: a missing key reads as false
isExpanded(mm, name) == name \in DOMAIN mm.expandedProjects /\ mm.expandedProjects[name]

RECURSIVE CountRunning(_)
CountRunning(cs) ==
    IF cs = <<>> THEN 0
    ELSE (IF Head(cs).State = "running" THEN 1 ELSE 0) + CountRunning(Tail(cs))

\* header and member rows of the projects ProjectOrder[k..], in order
RECURSIVE ProjectRows(_, _)
ProjectRows(mm, k) ==
    IF k > Len(ProjectOrder) THEN <<>>
    ELSE LET name == ProjectOrder[k] IN
         IF name \notin DOMAIN mm.projects THEN ProjectRows(mm, k + 1)
         ELSE LET cs == mm.projects[name]
                  header == HeaderRow(name, CountRunning(cs), Len(cs))
                  members == IF isExpanded(mm, name)
                             THEN [i \in 1..Len(cs) |-> ContainerRow(PtrTo(name, i, cs[i]))]
                             ELSE <<>>
              IN <<header>> \o members \o ProjectRows(mm, k + 1)

composeContainerIDs(mm) ==
    UNION {{mm.projects[n][i].ID : i \in 1..Len(mm.projects[n])} : n \in DOMAIN mm.projects}

\* indices of m.containers whose id is in no project, ascending
RECURSIVE standaloneIdx(_, _)
standaloneIdx(mm, i) ==
    IF i > Len(mm.containers) THEN <<>>
    ELSE (IF mm.containers[i].ID \in composeContainerIDs(mm) THEN <<>> ELSE <<i>>)
         \o standaloneIdx(mm, i + 1)

\* the rows of the standalone section, for the standalone indices idx
standaloneRows(mm, idx) ==
    IF Len(idx) > 0
    THEN <<HeaderRow(StandaloneName, 0, Len(idx))>> \o
         (IF isExpanded(mm, StandaloneName)
          THEN [k \in 1..Len(idx) |-> ContainerRow(PtrTo("", idx[k], mm.containers[idx[k]]))]
          ELSE <<>>)
    ELSE <<>>

\* the standalone section placed ahead of the projects
buildFlatListStandaloneFirst(held) ==
    [held EXCEPT !.flatList = standaloneRows(held, standaloneIdx(held, 1)) \o ProjectRows(held, 1)]

buildFlatList(held) ==
    The({The({[mm EXCEPT !.flatList = ProjectRows(mm, 1) \o standaloneRows(mm, idx)]
                 : idx \in {standaloneIdx(mm, 1)}})
            : mm \in {held}})

----------------------------------------------------------------------------
(* Cursor movement in the flattened tree.  The cursor is a 0-based index;  *)
(* row i of the code is flatList[i + 1] here.                              *)
rowIsProject(mm, i) == mm.flatList[i + 1].isProject

\* compose-view.go: one row up
moveCursorUpTreeStep(mm) ==
    IF Len(mm.flatList) = 0 THEN [mm EXCEPT !.cursor = 0]
    ELSE IF mm.cursor > 0 THEN [mm EXCEPT !.cursor = mm.cursor - 1]
    ELSE mm

\* compose-view.go: one row down
moveCursorDownTreeStep(mm) ==
    IF Len(mm.flatList) = 0 THEN [mm EXCEPT !.cursor = 0]
    ELSE IF mm.cursor < Len(mm.flatList) - 1 THEN [mm EXCEPT !.cursor = mm.cursor + 1]
    ELSE mm

\* the non-project rows of the flattened tree, as 0-based indices
containerRows(mm) == {i \in 0..(Len(mm.flatList) - 1) : ~rowIsProject(mm, i)}

SetMax(S) == CHOOSE x \in S : \A y \in S : y <= x
SetMin(S) == CHOOSE x \in S : \A y \in S : x <= y

\* model.go: previous non-project row, else the first non-project row, else 0
moveCursorUpTreeSeek(mm) ==
    IF Len(mm.flatList) = 0 THEN [mm EXCEPT !.cursor = 0]
    ELSE LET before == {i \in containerRows(mm) : i <= mm.cursor - 1}
         IN IF before # {} THEN [mm EXCEPT !.cursor = SetMax(before)]
            ELSE IF containerRows(mm) # {} THEN [mm EXCEPT !.cursor = SetMin(containerRows(mm))]
            ELSE [mm EXCEPT !.cursor = 0]

\* model.go: next non-project row, else the last non-project row, else the last row
moveCursorDownTreeSeek(mm) ==
    IF Len(mm.flatList) = 0 THEN [mm EXCEPT !.cursor = 0]
    ELSE LET after == {i \in containerRows(mm) : i >= mm.cursor + 1}
         IN IF after # {} THEN [mm EXCEPT !.cursor = SetMin(after)]
            ELSE IF containerRows(mm) # {} THEN [mm EXCEPT !.cursor = SetMax(containerRows(mm))]
            ELSE [mm EXCEPT !.cursor = Len(mm.flatList) - 1]

moveCursorUpTree(mm, nav) ==
    IF nav = "seek" THEN moveCursorUpTreeSeek(mm) ELSE moveCursorUpTreeStep(mm)
moveCursorDownTree(mm, nav) ==
    IF nav = "seek" THEN moveCursorDownTreeSeek(mm) ELSE moveCursorDownTreeStep(mm)

----------------------------------------------------------------------------
(* Pagination *)
calculateMaxContainers(mm) ==
    LET h1 == mm.terminalHeight - HEADER_HEIGHT
        h2 == IF mm.logsVisible THEN h1 - mm.logPanelHeight ELSE h1
        availableHeight == IF mm.infoVisible THEN h2 - INFO_PANEL_HEIGHT ELSE h2
        maxContainers == GoDiv(availableHeight, CONTAINER_ROW_HEIGHT)
    IN IF maxContainers < 1 THEN 1 ELSE maxContainers

\* message is the page indicator "Page %d/%d", held as the pair of numbers
PageIndicator(page, maxPage) == <<page + 1, maxPage + 1>>

\* updatePagination without the re-derivation of the page from the cursor
updatePaginationKeepsPage(mm) ==
    LET p == Max(1, calculateMaxContainers(mm))
        n == Len(mm.containers)
    IN IF n = 0 THEN [mm EXCEPT !.maxContainersPerPage = p, !.cursor = 0, !.page = 0]
       ELSE [mm EXCEPT !.maxContainersPerPage = p,
                       !.cursor = Min(mm.cursor, n - 1),
                       !.page = Min(mm.page, Max(0, GoDiv(n - 1, p)))]

updatePagination(held) ==
    LET paged(mm, p, n) ==
            IF n = 0 THEN [mm EXCEPT !.maxContainersPerPage = p, !.cursor = 0, !.page = 0]
            ELSE LET cur == IF mm.cursor >= n THEN n - 1 ELSE mm.cursor
                     maxPage == Max(0, GoDiv(n - 1, p))
                     pg1 == IF mm.page > maxPage THEN maxPage ELSE mm.page
                     pg2 == IF cur < pg1 * p THEN GoDiv(cur, p) ELSE pg1
                     pg3 == IF cur >= (pg2 + 1) * p THEN GoDiv(cur, p) ELSE pg2
                 IN [mm EXCEPT !.maxContainersPerPage = p, !.cursor = cur, !.page = pg3,
                               !.message = PageIndicator(pg3, maxPage)]
    IN The({The({paged(mm, p, Len(mm.containers))
                    : p \in {Max(1, calculateMaxContainers(mm))}})
               : mm \in {held}})

----------------------------------------------------------------------------
(* Sorting *)
\* the list held is left in the order it arrived in
sortContainersSkipped(mm) == mm

sortContainers(mm) ==
    The({IF DOMAIN mm.projects # {} /\ mm.composeViewMode THEN buildFlatList(m2) ELSE m2
            : m2 \in {ResolveAll(
                  [mm EXCEPT !.containers = sortSlice(@, mm.sortBy, mm.sortAsc),
                             !.projects = [n \in DOMAIN mm.projects |->
                                              sortSlice(mm.projects[n], mm.sortBy, mm.sortAsc)]])}})

----------------------------------------------------------------------------
(* Settings and the persisted configuration (package config) *)
DefaultPercents == <<8, 14, 6, 6, 10, 12, 18, 13, 13>>
DefaultPollRate == 2

Config(layout, pollRate, runtimeType, shell) ==
    [Layout |-> layout, PollRate |-> pollRate, RuntimeType |-> runtimeType,
     Socket |-> "", Shell |-> shell]
DefaultConfig == Config(DefaultPercents, DefaultPollRate, "docker", "/bin/sh")

\* the settings file: absent, unparsable, or holding a configuration
NoFile == [exists |-> FALSE, valid |-> FALSE, cfg |-> DefaultConfig]
BadFile == [exists |-> TRUE, valid |-> FALSE, cfg |-> DefaultConfig]
FileOf(cfg) == [exists |-> TRUE, valid |-> TRUE, cfg |-> cfg]

Load(file) ==
    IF ~file.exists THEN DefaultConfig
    ELSE IF ~file.valid THEN DefaultConfig
    ELSE IF file.cfg.Shell = "" THEN [file.cfg EXCEPT !.Shell = "/bin/sh"]
    ELSE file.cfg

Settings(percents, interval, runtime, shell) ==
    [ColumnPercents |-> percents, RefreshInterval |-> interval,
     Runtime |-> runtime, Shell |-> shell]

\* the normalisation F2 and the save key apply before leaving Settings
normalizePercents(ps) ==
    LET total == SumSeq(ps) IN
    IF total = 0 THEN DefaultPercents
    ELSE IF total # 100
    THEN LET newp == [i \in 1..Len(ps) |-> GoDiv(ps[i] * 100, total)]
             acc == SumSeq(newp)
         IN IF acc < 100 THEN [newp EXCEPT ![1] = newp[1] + (100 - acc)] ELSE newp
    ELSE ps

\* slices.Index: 0-based position of x in s, or -1
sliceIndex(s, x) ==
    IF \E i \in 1..Len(s) : s[i] = x THEN (CHOOSE i \in 1..Len(s) : s[i] = x) - 1 ELSE -1

----------------------------------------------------------------------------
(* Commands and messages *)
\* old marks a command in flight overtaken by a later command of its kind
Cmd(name, verb, id, d) == [cmd |-> name, verb |-> verb, id |-> id, d |-> d, old |-> FALSE]
fetchContainers == Cmd("fetchContainers", "", 0, 0)
fetchComposeProjects == Cmd("fetchComposeProjects", "", 0, 0)
tickCmd(d) == Cmd("tick", "", 0, IF d < 1 THEN 1 ELSE d)
doAction(action, containerID) == Cmd("doAction", action, containerID, 0)
fetchLogsCmd(id) == Cmd("fetchLogs", "", id, 0)
execProcess(id) == Cmd("exec", "", id, 0)
quitCmd == Cmd("quit", "", 0, 0)
quitTimer == Cmd("quitTimer", "", 0, 0)

Msg(type, key, height, containers, projects, id, lines, err) ==
    [type |-> type, key |-> key, Height |-> height, Containers |-> containers,
     Projects |-> projects, ID |-> id, Lines |-> lines, Err |-> err]
NoMsg == Msg("none", "", 0, <<>>, NoProjects, 0, <<>>, "")
WindowSizeMsg(h) == Msg("WindowSize", "", h, <<>>, NoProjects, 0, <<>>, "")
ContainersMsg(cs, err) == Msg("Containers", "", 0, cs, NoProjects, 0, <<>>, err)
composeProjectsMsg(ps, err) == Msg("composeProjects", "", 0, <<>>, ps, 0, <<>>, err)
LogsMsg(id, lines, err) == Msg("Logs", "", 0, <<>>, NoProjects, id, lines, err)
actionDoneMsg(err) == Msg("actionDone", "", 0, <<>>, NoProjects, 0, <<>>, err)
tickMsg == Msg("tick", "", 0, <<>>, NoProjects, 0, <<>>, "")
KeyMsg(k) == Msg("Key", k, 0, <<>>, NoProjects, 0, <<>>, "")

\* the result of one Update: the new model, the commands returned, the
\* settings file afterwards and the I/O the step performed itself
RIO(mm, cmds, file, io) == [m |-> mm, cmds |-> cmds, file |-> file, io |-> io]

----------------------------------------------------------------------------
(* InitialModel and Init *)
InitialModel(file) ==
    LET cfg == Load(file) IN
    [containers |-> <<>>, projects |-> NoProjects, expandedProjects |-> NoExpanded,
     flatList |-> <<>>, cursor |-> 0, page |-> 0, maxContainersPerPage |-> InitialPerPage,
     terminalHeight |-> 0, err |-> "", loading |-> TRUE, message |-> <<0, 0>>,
     statusMessage |-> "", logsVisible |-> FALSE, logPanelHeight |-> LOG_PANEL_HEIGHT,
     logsLines |-> <<>>, logsContainer |-> 0, infoVisible |-> FALSE,
     infoContainer |-> NilPtr, sortBy |-> sortByStatus, sortAsc |-> FALSE,
     columnMode |-> FALSE, selectedColumn |-> 7, currentMode |-> modeNormal,
     settings |-> Settings(cfg.Layout, cfg.PollRate, cfg.RuntimeType, cfg.Shell),
     composeViewMode |-> FALSE, suspendRefresh |-> FALSE, settingsSelected |-> 0]

\* model.Init: the commands dispatched at startup
InitCmds(mm) == <<fetchContainers, tickCmd(mm.settings.RefreshInterval)>>

----------------------------------------------------------------------------
(* Update: the message handlers.  env carries what the step reads besides  *)
(* the model: env.file the settings file, env.saveOk whether a write of it *)
(* succeeds, env.nav the compiled tree navigation.                         *)
R(mm, cmds, env) == RIO(mm, cmds, env.file, <<>>)

tickInterval(mm) == tickCmd(mm.settings.RefreshInterval)

UpdateWindowSize(mm, msg, env) ==
    R(updatePagination([mm EXCEPT !.terminalHeight = msg.Height]), <<>>, env)

\* the containers of a ContainersMsg taken, sorted and, in compose mode, the
\* tree rebuilt
takeContainers(mm, msg) ==
    IF msg.Err # "" THEN [mm EXCEPT !.loading = FALSE, !.err = msg.Err]
    ELSE The({IF b.currentMode = modeComposeView THEN buildFlatList(b) ELSE b
                 : b \in {sortContainers([DetachAll(mm, TRUE) EXCEPT
                                             !.loading = FALSE,
                                             !.containers = msg.Containers,
                                             !.err = ""])}})

UpdateContainers(mm, msg, env) ==
    The({R(updatePagination(IF m2.cursor >= Len(m2.containers)
                            THEN [m2 EXCEPT !.cursor = Max(0, Len(m2.containers) - 1)]
                            ELSE m2), <<>>, env)
            : m2 \in {takeContainers(mm, msg)}})

\* every fetched project and the standalone section default to expanded
expandDefaults(mm) ==
    LET names == DOMAIN mm.projects \cup {StandaloneName}
    IN [n \in DOMAIN mm.expandedProjects \cup names |->
           IF n \in DOMAIN mm.expandedProjects THEN mm.expandedProjects[n] ELSE TRUE]

\* the projects of a composeProjectsMsg taken and the tree rebuilt
takeProjects(mm, msg) ==
    IF msg.Err # ""
    THEN [mm EXCEPT !.loading = FALSE, !.err = msg.Err,
                    !.statusMessage = "Error fetching compose projects"]
    ELSE The({IF c.cursor >= Len(c.flatList)
              THEN [c EXCEPT !.cursor = Max(0, Len(c.flatList) - 1)] ELSE c
                 : c \in {buildFlatList(
                       The({[a EXCEPT !.expandedProjects = expandDefaults(a)]
                               : a \in {[DetachAll(mm, FALSE) EXCEPT
                                            !.loading = FALSE,
                                            !.projects = msg.Projects]}}))}})

UpdateComposeProjects(mm, msg, env) == R(updatePagination(takeProjects(mm, msg)), <<>>, env)

\* a failed log fetch that leaves the panel as it was
UpdateLogsKeepsPanel(mm, msg, env) ==
    LET m1 == IF msg.Err # ""
              THEN [mm EXCEPT !.statusMessage = "Logs error", !.logsLines = <<>>]
              ELSE [mm EXCEPT !.logsLines = msg.Lines, !.logsContainer = msg.ID,
                              !.logsVisible = TRUE]
    IN R(updatePagination(m1), <<>>, env)

UpdateLogs(mm, msg, env) ==
    LET m1 == IF msg.Err # ""
              THEN [mm EXCEPT !.statusMessage = "Logs error", !.logsLines = <<>>,
                              !.logsVisible = FALSE]
              ELSE [mm EXCEPT !.logsLines = msg.Lines, !.logsContainer = msg.ID,
                              !.logsVisible = TRUE]
    IN R(updatePagination(m1), <<>>, env)

UpdateActionDone(mm, msg, env) ==
    LET m1 == IF msg.Err # "" THEN [mm EXCEPT !.statusMessage = "Error"]
              ELSE [mm EXCEPT !.statusMessage = "Action completed successfully"]
    IN R(m1, <<fetchContainers>>, env)

UpdateTick(mm, msg, env) ==
    IF mm.suspendRefresh THEN R(mm, <<tickInterval(mm)>>, env)
    ELSE IF mm.logsVisible /\ mm.logsContainer # 0
    THEN R(mm, <<fetchContainers, tickInterval(mm), fetchLogsCmd(mm.logsContainer)>>, env)
    ELSE IF mm.composeViewMode
    THEN R(mm, <<fetchComposeProjects, tickInterval(mm)>>, env)
    ELSE R(mm, <<fetchContainers, tickInterval(mm)>>, env)

----------------------------------------------------------------------------
(* Update: key handling *)
Quit == {"q", "Q", "ctrl+c", "f10"}
Up == {"up", "k"}
Down == {"down", "j"}
PageUp == {"pgup", "left"}
PageDown == {"pgdown", "right"}
Refresh == {"f5"}
Start == {"s", "S"}
Stop == {"x", "X"}
Info == {"i", "I"}
Exec == {"e", "E"}
Restart == {"r", "R"}
Remove == {"d", "D"}

\* the row under the cursor is a container row of the flattened tree
onContainerRow(mm) == mm.cursor < Len(mm.flatList) /\ ~rowIsProject(mm, mm.cursor)

\* pointer to the container under the cursor in the active view, or nil
selectedPtr(mm) ==
    IF mm.composeViewMode
    THEN (IF onContainerRow(mm) THEN mm.flatList[mm.cursor + 1].container ELSE NilPtr)
    ELSE (IF Len(mm.containers) > 0
          THEN PtrTo("", mm.cursor + 1, mm.containers[mm.cursor + 1]) ELSE NilPtr)

setStatus(mm, text) == [mm EXCEPT !.statusMessage = text]

KeyEscPanels(mm, env) ==
    IF mm.columnMode
    THEN R([mm EXCEPT !.columnMode = FALSE, !.currentMode = modeNormal,
                      !.statusMessage = "Back to normal mode"], <<>>, env)
    ELSE IF mm.logsVisible
    THEN R(setStatus(updatePagination([mm EXCEPT !.logsVisible = FALSE,
                                                 !.currentMode = modeNormal]),
                     "Logs closed"), <<>>, env)
    ELSE R(setStatus(updatePagination([mm EXCEPT !.infoVisible = FALSE,
                                                 !.infoContainer = NilPtr,
                                                 !.currentMode = modeNormal]),
                     "Info panel closed"), <<>>, env)

KeyTab(mm, env) ==
    IF ~mm.columnMode
    THEN R([mm EXCEPT !.columnMode = TRUE, !.currentMode = modeColumnSelect,
                      !.statusMessage = "Column mode"], <<>>, env)
    ELSE R([mm EXCEPT !.columnMode = FALSE, !.currentMode = modeNormal,
                      !.statusMessage = "Row mode"], <<>>, env)

KeyF2(mm, env) ==
    IF mm.currentMode = modeSettings
    THEN R([mm EXCEPT !.currentMode = modeNormal, !.suspendRefresh = FALSE,
                      !.statusMessage = "Settings closed",
                      !.settings.ColumnPercents = normalizePercents(@)], <<>>, env)
    ELSE R([mm EXCEPT !.currentMode = modeSettings, !.suspendRefresh = TRUE,
                      !.statusMessage = "Settings"], <<>>, env)

KeyHelp(mm, env) ==
    IF mm.currentMode = modeHelp
    THEN R([mm EXCEPT !.currentMode = modeNormal, !.suspendRefresh = FALSE,
                      !.statusMessage = "Help closed"], <<>>, env)
    ELSE R([mm EXCEPT !.currentMode = modeHelp, !.suspendRefresh = TRUE,
                      !.statusMessage = "Help"], <<>>, env)

KeyLogs(mm, env) ==
    IF mm.infoVisible THEN R(mm, <<>>, env)
    ELSE LET p == selectedPtr(mm)
             containerID == IF p.null THEN 0 ELSE p.val.ID
         IN IF containerID = 0 THEN R(mm, <<>>, env)
            ELSE IF mm.logsVisible
            THEN R(updatePagination([mm EXCEPT !.logsVisible = FALSE,
                                               !.currentMode = modeNormal,
                                               !.statusMessage = "Logs closed"]), <<>>, env)
            ELSE R(updatePagination([mm EXCEPT !.logsVisible = TRUE,
                                               !.currentMode = modeLogs,
                                               !.statusMessage = "Fetching logs..."]),
                   <<fetchLogsCmd(containerID)>>, env)

\* Enter that sorts ascending by the selected column whatever the sort column was
KeyEnterAlwaysAscending(mm, env) ==
    IF mm.columnMode
    THEN R(setStatus(sortContainers([mm EXCEPT !.sortBy = mm.selectedColumn, !.sortAsc = TRUE]),
                     "Sorted"), <<>>, env)
    ELSE R(mm, <<>>, env)

KeyEnter(mm, env) ==
    IF mm.columnMode
    THEN LET col == mm.selectedColumn
             m1 == IF mm.sortBy = col THEN [mm EXCEPT !.sortAsc = ~mm.sortAsc]
                   ELSE [mm EXCEPT !.sortBy = col, !.sortAsc = TRUE]
         IN R(setStatus(sortContainers(m1), "Sorted"), <<>>, env)
    ELSE R(mm, <<>>, env)

KeyColumnLeft(mm, env) ==
    R(IF mm.selectedColumn > 0 THEN [mm EXCEPT !.selectedColumn = @ - 1] ELSE mm, <<>>, env)

KeyColumnRight(mm, env) ==
    R(IF mm.selectedColumn < LastColumn THEN [mm EXCEPT !.selectedColumn = @ + 1] ELSE mm,
      <<>>, env)

toggleRuntime(r) == IF r = RuntimeDocker THEN RuntimePodman ELSE RuntimeDocker

SettingsKeys == {"up", "k", "down", "j", "left", "h", "-", "right", "l", "+", "s", "S", "esc"}

settingsDecrease(mm) ==
    LET sel == mm.settingsSelected IN
    IF sel >= 0 /\ sel <= 8
    THEN (IF mm.settings.ColumnPercents[sel + 1] > 1
          THEN [mm EXCEPT !.settings.ColumnPercents[sel + 1] = @ - 1] ELSE mm)
    ELSE IF sel = 9
    THEN (IF mm.settings.RefreshInterval > 1
          THEN [mm EXCEPT !.settings.RefreshInterval = @ - 1] ELSE mm)
    ELSE IF sel = 10 THEN [mm EXCEPT !.settings.Runtime = toggleRuntime(@)]
    ELSE IF sel = 11
    THEN LET idx == sliceIndex(ShellOptions, mm.settings.Shell)
         IN [mm EXCEPT !.settings.Shell =
                ShellOptions[((idx - 1 + Len(ShellOptions)) % Len(ShellOptions)) + 1]]
    ELSE mm

settingsIncrease(mm) ==
    LET sel == mm.settingsSelected IN
    IF sel >= 0 /\ sel <= 8 THEN [mm EXCEPT !.settings.ColumnPercents[sel + 1] = @ + 1]
    ELSE IF sel = 9
    THEN (IF mm.settings.RefreshInterval < MaxRefreshInterval
          THEN [mm EXCEPT !.settings.RefreshInterval = @ + 1] ELSE mm)
    ELSE IF sel = 10 THEN [mm EXCEPT !.settings.Runtime = toggleRuntime(@)]
    ELSE IF sel = 11
    THEN LET idx == sliceIndex(ShellOptions, mm.settings.Shell)
         IN [mm EXCEPT !.settings.Shell = ShellOptions[((idx + 1) % Len(ShellOptions)) + 1]]
    ELSE mm

\* the configuration the save key builds from the settings
configOfSettings(st) == Config(st.ColumnPercents, st.RefreshInterval, st.Runtime, st.Shell)

settingsSave(mm, env) ==
    LET currentCfg == Load(env.file)
        runtimeChanged == mm.settings.Runtime # currentCfg.RuntimeType
        cfg == configOfSettings(mm.settings)
    IN IF ~env.saveOk
       THEN RIO(setStatus(mm, "Failed to save config"), <<>>, env.file, <<"load", "save">>)
       ELSE IF runtimeChanged
       THEN RIO(setStatus(mm, "Settings saved! Restarting app..."), <<quitTimer>>,
                FileOf(cfg), <<"load", "save", "marker">>)
       ELSE RIO([mm EXCEPT !.settings.ColumnPercents = normalizePercents(@),
                           !.currentMode = modeNormal, !.suspendRefresh = FALSE,
                           !.statusMessage = "Settings saved!"],
                <<fetchContainers, tickInterval(mm)>>, FileOf(cfg), <<"load", "save">>)

\* the key handling of Settings mode, for the keys of SettingsKeys
KeySettings(mm, key, env) ==
    IF key \in {"up", "k"}
    THEN R(IF mm.settingsSelected > 0 THEN [mm EXCEPT !.settingsSelected = @ - 1] ELSE mm,
           <<>>, env)
    ELSE IF key \in {"down", "j"}
    THEN R(IF mm.settingsSelected < LastSettingsRow
           THEN [mm EXCEPT !.settingsSelected = @ + 1] ELSE mm, <<>>, env)
    ELSE IF key \in {"left", "h", "-"} THEN R(settingsDecrease(mm), <<>>, env)
    ELSE IF key \in {"right", "l", "+"} THEN R(settingsIncrease(mm), <<>>, env)
    ELSE IF key \in {"s", "S"} THEN settingsSave(mm, env)
    ELSE R([mm EXCEPT !.currentMode = modeNormal, !.suspendRefresh = FALSE,
                      !.statusMessage = "Settings closed"], <<>>, env)

KeyUp(mm, env) ==
    IF mm.columnMode THEN R(mm, <<>>, env)
    ELSE LET m1 == IF mm.composeViewMode
                   THEN (IF Len(mm.flatList) > 0 THEN moveCursorUpTree(mm, env.nav) ELSE mm)
                   ELSE (IF mm.cursor > 0 THEN [mm EXCEPT !.cursor = @ - 1] ELSE mm)
             m2 == IF m1.maxContainersPerPage > 0
                      /\ m1.cursor < m1.page * m1.maxContainersPerPage
                   THEN [m1 EXCEPT !.page = IF m1.page - 1 < 0 THEN 0 ELSE m1.page - 1]
                   ELSE m1
         IN R(IF m2.cursor < 0 THEN [m2 EXCEPT !.cursor = 0] ELSE m2, <<>>, env)

KeyDown(mm, env) ==
    IF mm.columnMode THEN R(mm, <<>>, env)
    ELSE LET m1 == IF mm.composeViewMode
                   THEN (IF Len(mm.flatList) > 0 THEN moveCursorDownTree(mm, env.nav) ELSE mm)
                   ELSE (IF mm.cursor < Len(mm.containers) - 1
                         THEN [mm EXCEPT !.cursor = @ + 1] ELSE mm)
         IN R(IF m1.maxContainersPerPage > 0
                 /\ m1.cursor >= (m1.page + 1) * m1.maxContainersPerPage
              THEN [m1 EXCEPT !.page = @ + 1] ELSE m1, <<>>, env)

\* cursor placement of PageUp/PageDown in compose view, on the page just selected
pageCursorTree(mm, backwards) ==
    LET pageStart == Max(0, mm.page * mm.maxContainersPerPage)
        pageEnd == Min(pageStart + mm.maxContainersPerPage, Len(mm.flatList))
        onPage == {i \in containerRows(mm) : i >= pageStart /\ i < pageEnd}
        before == {i \in containerRows(mm) : i <= pageStart - 1}
        after == {i \in containerRows(mm) : i >= pageStart}
    IN IF onPage # {} THEN [mm EXCEPT !.cursor = SetMin(onPage)]
       ELSE IF Len(mm.flatList) > 0
       THEN (IF backwards
             THEN (IF before # {} THEN [mm EXCEPT !.cursor = SetMax(before)] ELSE mm)
             ELSE (IF after # {} THEN [mm EXCEPT !.cursor = SetMin(after)] ELSE mm))
       ELSE mm

\* cursor placement of PageUp/PageDown in the flat view
pageCursorFlat(mm) ==
    LET c == mm.page * mm.maxContainersPerPage
    IN [mm EXCEPT !.cursor = IF c >= Len(mm.containers)
                             THEN Max(0, Len(mm.containers) - 1) ELSE c]

pageCursor(mm, backwards) ==
    IF mm.maxContainersPerPage > 0
    THEN (IF mm.composeViewMode THEN pageCursorTree(mm, backwards) ELSE pageCursorFlat(mm))
    ELSE mm

KeyPageUp(mm, env) ==
    LET m1 == IF mm.page > 0 THEN pageCursor([mm EXCEPT !.page = @ - 1], TRUE) ELSE mm
    IN R(updatePagination(m1), <<>>, env)

KeyPageDown(mm, env) ==
    LET count == IF mm.composeViewMode THEN Len(mm.flatList) ELSE Len(mm.containers)
        maxPage0 == IF mm.maxContainersPerPage > 0
                    THEN GoDiv(count - 1, mm.maxContainersPerPage) ELSE 0
        maxPage == IF maxPage0 < 0 THEN 0 ELSE maxPage0
        m1 == IF mm.page < maxPage THEN pageCursor([mm EXCEPT !.page = @ + 1], FALSE) ELSE mm
    IN R(updatePagination(m1), <<>>, env)

KeyRefresh(mm, env) ==
    R(updatePagination([mm EXCEPT !.loading = TRUE, !.logsVisible = FALSE,
                                  !.infoVisible = FALSE, !.infoContainer = NilPtr]),
      <<fetchContainers>>, env)

KeyCompose(mm, env) ==
    IF ~mm.composeViewMode
    THEN R([mm EXCEPT !.composeViewMode = TRUE, !.currentMode = modeComposeView,
                      !.statusMessage = "Switched to Compose view ",
                      !.expandedProjects = [n \in {StandaloneName} |-> TRUE],
                      !.cursor = 0, !.page = 0],
           <<fetchComposeProjects, tickInterval(mm)>>, env)
    ELSE R(updatePagination([mm EXCEPT !.composeViewMode = FALSE,
                                       !.currentMode = modeComposeView,
                                       !.statusMessage = "Switched to Container View",
                                       !.cursor = 0, !.page = 0]), <<>>, env)

\* Start, Stop, Restart, Remove: act on the container under the cursor
\* an action key that takes the row of the flat collection in either view
KeyActionFlatRow(mm, verb, text, env) ==
    IF Len(mm.containers) = 0 \/ mm.cursor >= Len(mm.containers) THEN R(mm, <<>>, env)
    ELSE R(setStatus(mm, text), <<doAction(verb, mm.containers[mm.cursor + 1].ID)>>, env)

KeyAction(mm, verb, text, env) ==
    LET p == selectedPtr(mm) IN
    IF p.null THEN R(mm, <<>>, env)
    ELSE R(setStatus(mm, text), <<doAction(verb, p.val.ID)>>, env)

KeyInfo(mm, env) ==
    IF mm.logsVisible THEN R(mm, <<>>, env)
    ELSE LET selected == selectedPtr(mm) IN
         IF selected.null THEN R(mm, <<>>, env)
         ELSE IF ~mm.infoVisible
         THEN R(updatePagination([mm EXCEPT !.infoVisible = TRUE,
                                            !.infoContainer = selected,
                                            !.currentMode = modeInfo,
                                            !.statusMessage = "Showing container info"]),
                <<>>, env)
         ELSE R(updatePagination([mm EXCEPT !.infoVisible = FALSE,
                                            !.infoContainer = NilPtr,
                                            !.currentMode = modeNormal,
                                            !.statusMessage = "Info panel closed"]),
                <<>>, env)

KeyExec(mm, env) ==
    LET container == selectedPtr(mm) IN
    IF ~container.null /\ container.val.State = "running"
    THEN R(setStatus(mm, "Opening interactive shell..."), <<execProcess(container.val.ID)>>, env)
    ELSE R(mm, <<>>, env)

\* the switch over the key bindings, first match wins
KeyBindings(mm, key, env) ==
    IF key \in Quit THEN R(mm, <<quitCmd>>, env)
    ELSE IF key \in Up THEN KeyUp(mm, env)
    ELSE IF key \in Down THEN KeyDown(mm, env)
    ELSE IF key \in PageUp THEN KeyPageUp(mm, env)
    ELSE IF key \in PageDown THEN KeyPageDown(mm, env)
    ELSE IF key \in Refresh THEN KeyRefresh(mm, env)
    ELSE IF key \in {"c", "C"} THEN KeyCompose(mm, env)
    ELSE IF key \in Start THEN KeyAction(mm, "start", "Starting container...", env)
    ELSE IF key \in Stop THEN KeyAction(mm, "stop", "Stopping container...", env)
    ELSE IF key \in Info THEN KeyInfo(mm, env)
    ELSE IF key \in Exec THEN KeyExec(mm, env)
    ELSE IF key \in Restart THEN KeyAction(mm, "restart", "Restarting container...", env)
    ELSE IF key \in Remove THEN KeyAction(mm, "rm", "Removing container...", env)
    ELSE R(mm, <<>>, env)

UpdateKey(mm0, key, env) ==
    LET mm == [mm0 EXCEPT !.statusMessage = ""] IN
    IF key = "esc" /\ (mm.columnMode \/ mm.logsVisible \/ mm.infoVisible)
    THEN KeyEscPanels(mm, env)
    ELSE IF key = "backtick"
    THEN RIO(setStatus(mm, "Dumped debug snapshot"), <<>>, env.file, <<"debuglog">>)
    ELSE IF key = "tab" THEN KeyTab(mm, env)
    ELSE IF key = "f2" THEN KeyF2(mm, env)
    ELSE IF key = "?" THEN KeyHelp(mm, env)
    ELSE IF key \in {"l", "L"} THEN KeyLogs(mm, env)
    ELSE IF key = "enter" THEN KeyEnter(mm, env)
    ELSE IF key \in {"left", "h"} /\ mm.columnMode THEN KeyColumnLeft(mm, env)
    ELSE IF key = "right" /\ mm.columnMode THEN KeyColumnRight(mm, env)
    ELSE IF mm.currentMode = modeSettings /\ key \in SettingsKeys THEN KeySettings(mm, key, env)
    ELSE KeyBindings(mm, key, env)

Update(mm, msg, env) ==
    CASE msg.type = "WindowSize" -> UpdateWindowSize(mm, msg, env)
      [] msg.type = "Containers" -> UpdateContainers(mm, msg, env)
      [] msg.type = "composeProjects" -> UpdateComposeProjects(mm, msg, env)
      [] msg.type = "Logs" -> UpdateLogs(mm, msg, env)
      [] msg.type = "actionDone" -> UpdateActionDone(mm, msg, env)
      [] msg.type = "tick" -> UpdateTick(mm, msg, env)
      [] msg.type = "Key" -> UpdateKey(mm, msg.key, env)
      [] OTHER -> R(mm, <<>>, env)

----------------------------------------------------------------------------
(* The environment: what the engine and the terminal can deliver *)
cA == Container(1, "running", "web")
cB == Container(2, "exited", "web")
cC == Container(3, "running", "")

Listings == {<<>>, <<cA, cB>>, <<cA, cB, cC>>}
ComposeListings == {NoProjects, [n \in {"web"} |-> <<cA, cB>>]}
LogLines(id) == {<<>>, <<id>>}

(* The asynchronous commands (cmds.go): the messages the closure of each   *)
(* command can return.  One run of a command returns one of them.          *)
fetchContainersRun ==
    {ContainersMsg(cs, "") : cs \in Listings} \cup {ContainersMsg(<<>>, "fail")}
fetchComposeProjectsRun ==
    {composeProjectsMsg(ps, "") : ps \in ComposeListings}
        \cup {composeProjectsMsg(NoProjects, "fail")}
\* a log fetch whose closure never returns
fetchLogsRunNever(id) == {}

fetchLogsRun(id) ==
    {LogsMsg(id, lines, "") : lines \in LogLines(id)} \cup {LogsMsg(id, <<>>, "fail")}
doActionRun == {actionDoneMsg(""), actionDoneMsg("fail")}
tickRun == {tickMsg}

cmdRun(c) ==
    CASE c.cmd = "fetchContainers" -> fetchContainersRun
      [] c.cmd = "fetchComposeProjects" -> fetchComposeProjectsRun
      [] c.cmd = "fetchLogs" -> fetchLogsRun(c.id)
      [] c.cmd = "doAction" -> doActionRun
      [] c.cmd = "exec" -> doActionRun
      [] c.cmd = "tick" -> tickRun
      [] OTHER -> {}

----------------------------------------------------------------------------
(* The event loop.  A command in flight completes at any time and its one  *)
(* message is processed by Update; a key or a resize is processed when it  *)
(* arrives.  While an exec session runs the loop handles nothing else.     *)
Counted == {"fetchContainers", "fetchComposeProjects", "fetchLogs", "doAction"}

CountWhere(bag, S) == BagCardinality([c \in {x \in BagToSet(bag) : x.cmd \in S} |-> bag[c]])

Copies(c, n) == IF n = 0 THEN EmptyBag ELSE [x \in {c} |-> n]

execRunning == \E c \in BagToSet(inflight) : c.cmd = "exec"

Drift(ps) == SumSeq([i \in 1..Len(ps) |->
                        IF ps[i] >= DefaultPercents[i] THEN ps[i] - DefaultPercents[i]
                        ELSE DefaultPercents[i] - ps[i]])

\* the bounds of the model on settings edits
EditWithinBounds(msg, new) ==
    msg.key \in {"left", "h", "-", "right", "+"} =>
        /\ Drift(new.settings.ColumnPercents) <= MaxDrift
        /\ new.settings.RefreshInterval <= MaxInterval

NoCall == [fn |-> "", arg |-> <<>>, result |-> <<>>]

NoGhost == [on |-> FALSE, dispatched |-> 0, delivered |-> 0, stale |-> FALSE]

\* Update applied to msg; the bag `done` leaves the commands in flight and
\* the bag `kept` (overtaken commands) joins them with the commands returned
Turn(msg, done, kept, saveOk) ==
    /\ ~quit
    /\ lastMsg' = IF ghost.on THEN msg ELSE lastMsg
    /\ \E r \in {Update(m, msg, [file |-> cfgFile, saveOk |-> saveOk, nav |-> treeNav])} :
         LET issued == BagOfSeq(r.cmds)
             bag == ((inflight (-) done) (+) kept) (+) issued
             g == [on |-> TRUE,
                   dispatched |-> ghost.dispatched + CountWhere(issued, Counted),
                   delivered |-> ghost.delivered + CountWhere(done, Counted)
                                   - CountWhere(kept, Counted),
                   stale |-> \E c \in BagToSet(done) : c.old]
         IN /\ CountWhere(bag, {"tick"}) <= MaxTicks
            /\ CountWhere(bag, Counted \cup {"exec"}) <= MaxInFlight
            /\ EditWithinBounds(msg, r.m)
            /\ ghost.on => g.dispatched + CountWhere(bag, {"doAction"}) <= MaxDispatch
            /\ m' = r.m
            /\ inflight' = bag
            /\ lastCmds' = IF ghost.on THEN r.cmds ELSE lastCmds
            /\ lastIO' = IF ghost.on THEN r.io ELSE lastIO
            /\ cfgFile' = r.file
            /\ ghost' = IF ghost.on THEN g ELSE ghost
            /\ UNCHANGED <<treeNav, quit>>

Step(msg, done, kept, saveOk) == Turn(msg, done, kept, saveOk) /\ UNCHANGED call

\* the command c in flight completes with one of the messages of its run;
\* j commands of its kind dispatched before it are overtaken and stay in flight
Deliver(c) ==
    /\ BagIn(c, inflight)
    /\ execRunning => c.cmd = "exec"
    /\ \E msg \in cmdRun(c) :
         \E j \in (IF ghost.on /\ ~c.old THEN 0..(inflight[c] - 1) ELSE {0}) :
            Step(msg, Copies(c, j + 1), Copies([c EXCEPT !.old = TRUE], j), TRUE)

\* the key k is pressed; saving the settings can fail to write the file
Press(k) ==
    \E ok \in (IF k \in {"s", "S"} /\ m.currentMode = modeSettings
               THEN BOOLEAN ELSE {TRUE}) :
        Step(KeyMsg(k), EmptyBag, EmptyBag, ok)

\* the terminal is resized to h rows
Resize(h) == Step(WindowSizeMsg(h), EmptyBag, EmptyBag, TRUE)

\* the terminal belongs to the program, not to a shell run by tea.ExecProcess
foreground == ~execRunning

ContainersDone == \E c \in BagToSet(inflight) : c.cmd = "fetchContainers" /\ Deliver(c)
ComposeDone == \E c \in BagToSet(inflight) : c.cmd = "fetchComposeProjects" /\ Deliver(c)
LogsDone == \E c \in BagToSet(inflight) : c.cmd = "fetchLogs" /\ Deliver(c)
ActionDone == \E c \in BagToSet(inflight) : c.cmd = "doAction" /\ Deliver(c)
ExecDone == \E c \in BagToSet(inflight) : c.cmd = "exec" /\ Deliver(c)
TickFires == \E c \in BagToSet(inflight) : c.cmd = "tick" /\ Deliver(c)

\* tea.Quit and the restart timer deliver QuitMsg, which ends the program
QuitDelivered ==
    \E c \in BagToSet(inflight) :
        /\ c.cmd \in {"quit", "quitTimer"}
        /\ ~execRunning
        /\ ~quit
        /\ quit' = TRUE
        /\ inflight' = inflight (-) Copies(c, 1)
        /\ UNCHANGED <<m, lastMsg, lastCmds, lastIO, treeNav, cfgFile, ghost, call>>

PressEsc == foreground /\ \E k \in {"esc"} : Press(k)
PressDebug == foreground /\ \E k \in {"backtick"} : Press(k)
PressTab == foreground /\ \E k \in {"tab"} : Press(k)
PressF2 == foreground /\ \E k \in {"f2"} : Press(k)
PressHelp == foreground /\ \E k \in {"?"} : Press(k)
PressLogs == foreground /\ \E k \in {"l", "L"} : Press(k)
PressEnter == foreground /\ \E k \in {"enter"} : Press(k)
PressLeft == foreground /\ \E k \in {"left", "h"} : Press(k)
PressRight == foreground /\ \E k \in {"right"} : Press(k)
PressUp == foreground /\ \E k \in Up : Press(k)
PressDown == foreground /\ \E k \in Down : Press(k)
PressMinus == foreground /\ \E k \in {"-"} : Press(k)
PressPlus == foreground /\ \E k \in {"+"} : Press(k)
PressPgUp == foreground /\ \E k \in {"pgup"} : Press(k)
PressPgDown == foreground /\ \E k \in {"pgdown"} : Press(k)
PressRefresh == foreground /\ \E k \in Refresh : Press(k)
PressCompose == foreground /\ \E k \in {"c", "C"} : Press(k)
PressStart == foreground /\ \E k \in Start : Press(k)
PressStop == foreground /\ \E k \in Stop : Press(k)
PressRestart == foreground /\ \E k \in Restart : Press(k)
PressRemove == foreground /\ \E k \in Remove : Press(k)
PressInfo == foreground /\ \E k \in Info : Press(k)
PressExec == foreground /\ \E k \in Exec : Press(k)
PressQuit == foreground /\ \E k \in Quit : Press(k)

\* the program after construction, reading the settings file `file`
InitWith(file, nav, counting) ==
    /\ cfgFile = file
    /\ treeNav \in nav
    /\ m = InitialModel(cfgFile)
    /\ inflight = BagOfSeq(InitCmds(m))
    /\ lastMsg = NoMsg
    /\ lastCmds = InitCmds(m)
    /\ lastIO = <<"load">>
    /\ quit = FALSE
    /\ ghost = [NoGhost EXCEPT !.on = counting,
                               !.dispatched = IF counting THEN 1 ELSE 0]
    /\ call = NoCall

TreeNavs == {"seek", "step"}

Init == InitWith(NoFile, TreeNavs, FALSE)

----------------------------------------------------------------------------
(* SpecNav: navigation, refresh and the compose view *)
NavHeights == {9, 10}

ResizeNav == foreground /\ \E h \in NavHeights : Resize(h)

NextNav ==
    \/ ResizeNav
    \/ ContainersDone
    \/ ComposeDone
    \/ TickFires
    \/ PressUp
    \/ PressDown
    \/ PressPgUp
    \/ PressPgDown
    \/ PressRefresh
    \/ PressCompose

SpecNav == Init /\ [][NextNav]_vars


\* C1: whenever the collection rendered by the active view is non-empty (the
\* containers in the flat view, the flattened tree in the compose view), the
\* cursor indexes one of its rows: 0 <= cursor < length.
C1_CursorIndexesActiveRow ==
    LET n == IF m.composeViewMode THEN Len(m.flatList) ELSE Len(m.containers)
    IN n > 0 => (0 <= m.cursor /\ m.cursor < n)

\* the compose view shows a non-empty tree and the cursor is past its last row
C1_CursorPastTree ==
    m.composeViewMode /\ Len(m.flatList) > 0 /\ m.cursor >= Len(m.flatList)

\* C3: after every processed event the page size p is at least 1 and the
\* cursor lies in the current page window: page*p <= cursor < page*p + p,
\* in the compose view too.
C3_CursorInsidePageWindow ==
    /\ m.maxContainersPerPage >= 1
    /\ m.page * m.maxContainersPerPage <= m.cursor
    /\ m.cursor < m.page * m.maxContainersPerPage + m.maxContainersPerPage

\* the compose view's cursor is on a row of the tree that its page does not show
C3_TreeCursorOffPage ==
    /\ m.composeViewMode
    /\ m.cursor < Len(m.flatList)
    /\ m.maxContainersPerPage >= 1
    /\ m.cursor >= (m.page + 1) * m.maxContainersPerPage

----------------------------------------------------------------------------
(* SpecPanels: the logs and info panels against late results *)
NextPanels ==
    \/ ContainersDone
    \/ LogsDone
    \/ TickFires
    \/ PressLogs
    \/ PressInfo
    \/ PressEsc

SpecPanels == Init /\ [][NextPanels]_vars

\* C2: the logs panel and the info panel are never visible together.
C2_PanelsExclusive == ~(m.logsVisible /\ m.infoVisible)

\* both panels are visible, the logs mode having been left for the info mode
C2_BothPanelsVisible ==
    m.logsVisible /\ m.infoVisible /\ m.currentMode = modeInfo

----------------------------------------------------------------------------
(* SpecPagination: updatePagination on its own *)
MaxCursor == 4
MaxPage == 3
PaginationHeights == {9, 10, 11, 26}

\* a model with any cursor and page over a held list, before recomputation
PaginationInputs ==
    {[InitialModel(NoFile) EXCEPT !.containers = sortSlice(l, sortByStatus, FALSE),
                                  !.cursor = c, !.page = pg, !.terminalHeight = h,
                                  !.logsVisible = lv]
        : l \in Listings, c \in 0..MaxCursor, pg \in 0..MaxPage,
          h \in PaginationHeights, lv \in BOOLEAN}

InitPagination ==
    /\ m \in PaginationInputs
    /\ cfgFile = NoFile
    /\ treeNav = "step"
    /\ inflight = EmptyBag
    /\ lastMsg = NoMsg
    /\ lastCmds = <<>>
    /\ lastIO = <<>>
    /\ quit = FALSE
    /\ ghost = NoGhost
    /\ call = NoCall

Paginate ==
    /\ call = NoCall
    /\ m' = updatePagination(m)
    /\ call' = [fn |-> "updatePagination", arg |-> m, result |-> m']
    /\ UNCHANGED <<inflight, lastMsg, lastCmds, lastIO, treeNav, cfgFile, quit, ghost>>

NextPagination == Paginate

SpecPagination == InitPagination /\ [][NextPagination]_vars

\* C4: for a cursor c >= 0, any page index and a non-empty list of length n,
\* after updatePagination with page size p >= 1 the cursor is min(c, n-1),
\* page = floor(cursor/p), page*p <= cursor < page*p + p and
\* page <= floor((n-1)/p); for an empty list cursor and page are both 0.
C4_UpdatePaginationContract ==
    call.fn = "updatePagination" =>
        LET c == call.arg.cursor
            n == Len(call.arg.containers)
            p == call.result.maxContainersPerPage
            cur == call.result.cursor
            pg == call.result.page
        IN /\ p >= 1
           /\ n = 0 => (cur = 0 /\ pg = 0)
           /\ n > 0 => /\ cur = Min(c, n - 1)
                       /\ pg = GoDiv(cur, p)
                       /\ pg * p <= cur /\ cur < pg * p + p
                       /\ pg <= GoDiv(n - 1, p)

\* a cursor past the end of the list was clamped onto a later page than the
\* page held before
C4_ClampedOntoLaterPage ==
    /\ call.fn = "updatePagination"
    /\ call.arg.cursor > Len(call.arg.containers) - 1
    /\ Len(call.arg.containers) > 0
    /\ call.result.page > call.arg.page
    /\ call.result.cursor = Len(call.arg.containers) - 1

----------------------------------------------------------------------------
(* SpecTick: the periodic refresh in each view, each Update recorded *)
InitRecorded == InitWith(NoFile, TreeNavs, TRUE)

NextTick ==
    \/ TickFires
    \/ ContainersDone
    \/ ComposeDone
    \/ LogsDone
    \/ PressLogs
    \/ PressCompose

SpecTick == InitRecorded /\ [][NextTick]_vars

\* how many of the commands returned by the latest Update are of kind name
returned(name) == Cardinality({i \in DOMAIN lastCmds : lastCmds[i].cmd = name})

\* C5: a Tick processed while the periodic refresh is not suspended returns
\* exactly one new Tick and a FetchContainers, in every view; also a FetchLogs
\* for the logs container when the logs panel is visible and a
\* FetchComposeProjects when the compose view is active.
C5_TickReissuesRefresh ==
    (lastMsg.type = "tick" /\ ~m.suspendRefresh) =>
        /\ returned("tick") = 1
        /\ returned("fetchContainers") = 1
        /\ (m.logsVisible /\ m.logsContainer # 0) =>
               \E i \in DOMAIN lastCmds :
                   lastCmds[i].cmd = "fetchLogs" /\ lastCmds[i].id = m.logsContainer
        /\ m.composeViewMode => returned("fetchComposeProjects") = 1

\* a Tick processed in the compose view returned no FetchContainers
C5_ComposeTickSkipsContainers ==
    /\ lastMsg.type = "tick"
    /\ ~m.suspendRefresh
    /\ m.composeViewMode
    /\ returned("tick") = 1
    /\ returned("fetchContainers") = 0

----------------------------------------------------------------------------
(* SpecModes: the keys that enter and leave the modes, against the Tick *)
NextModes ==
    \/ TickFires
    \/ ContainersDone
    \/ PressF2
    \/ PressHelp
    \/ PressTab
    \/ PressEsc
    \/ PressLogs
    \/ PressInfo
    \/ PressCompose

SpecModes == Init /\ [][NextModes]_vars

\* C6: the periodic refresh is suspended exactly while the mode is Settings
\* or Help: the flag suspendRefresh is true iff the mode is one of the two,
\* whichever key (F2, save, Esc, ?, Tab, logs, info, compose) left the mode.
C6_SuspendedIffSettingsOrHelp ==
    m.suspendRefresh <=> m.currentMode \in {modeSettings, modeHelp}

\* the mode has left Settings or Help for the compose view with the refresh
\* still suspended: the next Tick returns only a Tick
C6_StillSuspendedOutside ==
    /\ m.suspendRefresh
    /\ m.currentMode = modeComposeView
    /\ Update(m, tickMsg, [file |-> cfgFile, saveOk |-> TRUE, nav |-> treeNav]).cmds
          = <<tickInterval(m)>>

----------------------------------------------------------------------------
(* SpecSettings: an edit session of the Settings screen *)
NextSettings ==
    \/ PressF2
    \/ PressUp
    \/ PressDown
    \/ PressPlus
    \/ PressMinus
    \/ PressEsc

SpecSettings == Init /\ [][NextSettings]_vars

\* C10: whenever the mode changes from Settings to another mode (by F2, by
\* the save key or by Esc), the nine column-width percentages held in the
\* application state sum to exactly 100.
C10_PercentsSumTo100OnExit ==
    [][(m.currentMode = modeSettings /\ m'.currentMode # modeSettings)
          => SumSeq(m'.settings.ColumnPercents) = 100]_vars

\* Settings was closed and the percentages held do not sum to 100
C10_ClosedOffBalance ==
    /\ m.currentMode = modeNormal
    /\ m.statusMessage = "Settings closed"
    /\ Len(m.settings.ColumnPercents) = 9
    /\ SumSeq(m.settings.ColumnPercents) # 100

----------------------------------------------------------------------------
(* SpecCmds: the asynchronous commands of a running program, each Update    *)
(* recorded.  A command's closure returns once the client call it makes     *)
(* returns, and every client call runs under a timeout, so a command in     *)
(* flight does complete: weak fairness of each completion.                  *)
NextCmds ==
    \/ ContainersDone
    \/ ComposeDone
    \/ LogsDone
    \/ ActionDone
    \/ TickFires
    \/ PressRefresh
    \/ PressLogs
    \/ PressCompose
    \/ PressStart

SpecCmds ==
    /\ InitRecorded
    /\ [][NextCmds]_vars
    /\ WF_vars(ContainersDone)
    /\ WF_vars(ComposeDone)
    /\ WF_vars(LogsDone)
    /\ WF_vars(ActionDone)

\* C7: every dispatched FetchContainers, FetchComposeProjects, FetchLogs and
\* PerformAction command eventually delivers exactly one completion message
\* to Update, a result or an error: a command dispatched is in flight or has
\* delivered once (never twice), the message it delivers is a result or an
\* error, and the k-th dispatch is followed by a k-th delivery.
C7_OneCompletionPerCommand ==
    /\ [](ghost.dispatched = ghost.delivered + CountWhere(inflight, Counted))
    /\ [](lastMsg.type \in {"Containers", "composeProjects", "Logs", "actionDone"}
            => (lastMsg.Err # "" =>
                   /\ lastMsg.Containers = <<>>
                   /\ lastMsg.Projects = NoProjects
                   /\ lastMsg.Lines = <<>>))
    /\ \A k \in 1..MaxDispatch : (ghost.dispatched >= k) ~> (ghost.delivered >= k)

\* every dispatch the run may make was made and has delivered, one of them a
\* PerformAction that failed
C7_AllDelivered ==
    /\ ghost.dispatched = MaxDispatch
    /\ ghost.delivered = MaxDispatch
    /\ lastMsg.type = "Containers"
    /\ m.statusMessage = "Error"

\* C8: completion messages are applied in delivery order with no sequencing
\* check: after a successful container-list message the containers held are
\* that message's payload, sorted, even when the message belongs to a
\* FetchContainers dispatched before one whose result was applied already.
C8_HeldListIsLatestDelivered ==
    (lastMsg.type = "Containers" /\ lastMsg.Err = "") =>
        m.containers = sortSlice(lastMsg.Containers, m.sortBy, m.sortAsc)

\* an overtaken FetchContainers delivered last and its listing is displayed
C8_StaleListingDisplayed ==
    /\ ghost.stale
    /\ lastMsg.type = "Containers"
    /\ lastMsg.Err = ""
    /\ Len(lastMsg.Containers) = 3
    /\ m.containers = sortSlice(lastMsg.Containers, m.sortBy, m.sortAsc)
    /\ m.containers # lastMsg.Containers

\* C9: when a container-list, compose-projects or logs completion carries an
\* error, the containers, projects, flattened tree and log lines held before
\* are unchanged, a transient status notice is recorded and pagination is
\* recomputed.
C9_ErrorKeepsDataAndNotifies ==
    [][(lastMsg'.type \in {"Containers", "composeProjects", "Logs"} /\ lastMsg'.Err # "")
          => /\ m'.containers = m.containers
             /\ m'.projects = m.projects
             /\ m'.flatList = m.flatList
             /\ m'.logsLines = m.logsLines
             /\ m'.statusMessage # ""
             /\ updatePagination(m') = m']_vars

\* a failed container listing was processed and no status notice is held
C9_ListingErrorUnnoticed ==
    /\ lastMsg.type = "Containers"
    /\ lastMsg.Err # ""
    /\ m.err = lastMsg.Err
    /\ m.statusMessage = ""

\* a failed log fetch was processed and the log lines held before are gone
C9_LogLinesDropped ==
    /\ lastMsg.type = "Logs"
    /\ lastMsg.Err # ""
    /\ m.logsContainer # 0
    /\ m.logsLines = <<>>
    /\ ~m.logsVisible

----------------------------------------------------------------------------
(* The flattened tree of the compose view *)
\* some container held is a member of no compose project held
hasStandalone(mm) ==
    \E i \in 1..Len(mm.containers) : mm.containers[i].ID \notin composeContainerIDs(mm)

\* the tree has a "Standalone Containers" header row
hasStandaloneHeader(mm) ==
    \E i \in 1..Len(mm.flatList) :
        mm.flatList[i].isProject /\ mm.flatList[i].projectName = StandaloneName

\* C11: in every reachable state with compose view active, the flattened
\* tree has a "Standalone Containers" header row if and only if some
\* container of the collection held is a member of no compose project.
C11_StandaloneHeaderIffLooseContainer ==
    m.composeViewMode => (hasStandaloneHeader(m) <=> hasStandalone(m))

\* compose view was entered with containers held and the tree not built yet
C11_ComposeEnteredBeforeTreeBuilt ==
    /\ m.composeViewMode
    /\ m.currentMode = modeComposeView
    /\ Len(m.containers) = 3
    /\ m.projects = NoProjects
    /\ m.flatList = <<>>

----------------------------------------------------------------------------
(* Functions applied on their own: everything but m and call stands still *)
AtRest ==
    /\ cfgFile = NoFile
    /\ treeNav = "step"
    /\ inflight = EmptyBag
    /\ lastMsg = NoMsg
    /\ lastCmds = <<>>
    /\ lastIO = <<>>
    /\ quit = FALSE
    /\ ghost = NoGhost
    /\ call = NoCall

StaysAtRest == UNCHANGED <<inflight, lastMsg, lastCmds, lastIO, treeNav, cfgFile, quit, ghost>>

(* SpecFlatten: buildFlatList on the collections a model can hold *)
FlattenListings == {<<>>, <<cC>>, <<cA, cB>>, <<cA, cB, cC>>, <<cC, cB, cA>>}

FlattenProjects ==
    {NoProjects,
     [n \in {"web"} |-> <<cA, cB>>],
     [n \in {"web"} |-> <<cB, cA>>],
     [n \in {"api"} |-> <<cA>>],
     [n \in {"api", "web"} |-> IF n = "api" THEN <<cC>> ELSE <<cA, cB>>]}

\* expandedProjects: any of the three names may be missing, true or false
FlattenExpanded ==
    UNION {[S -> BOOLEAN] : S \in SUBSET {"api", "web", StandaloneName}}

FlattenInputs ==
    {[InitialModel(NoFile) EXCEPT !.containers = l, !.projects = ps,
                                  !.expandedProjects = ex, !.composeViewMode = TRUE,
                                  !.currentMode = modeComposeView]
        : l \in FlattenListings, ps \in FlattenProjects, ex \in FlattenExpanded}

InitFlatten == m \in FlattenInputs /\ AtRest

Flatten ==
    /\ call = NoCall
    /\ m' = buildFlatList(m)
    /\ call' = [fn |-> "buildFlatList", arg |-> m, result |-> m']
    /\ StaysAtRest

NextFlatten == Flatten

SpecFlatten == InitFlatten /\ [][NextFlatten]_vars

\* C12: buildFlatList yields, for each project in ascending name order, one
\* header row with running = the number of members in state running and
\* total = the number of members, followed only if the project is expanded
\* by all its members in member-list order; then, if some container belongs
\* to no project, one trailing "Standalone Containers" header followed (if
\* expanded) by those containers in collection order.
C12_FlatListLayout ==
    call.fn = "buildFlatList" =>
        LET mm == call.arg
            fl == call.result.flatList
            heads == SelectSeq(fl, LAMBDA r : r.isProject)
            loose == SelectSeq(mm.containers, LAMBDA c : c.ID \notin composeContainerIDs(mm))
            members(n) == IF n = StandaloneName THEN loose ELSE mm.projects[n]
            nextHead(i) == SetMin({j \in (i + 1)..Len(fl) : fl[j].isProject} \cup {Len(fl) + 1})
            body(i) == SubSeq(fl, i + 1, nextHead(i) - 1)
        IN /\ [k \in 1..Len(heads) |-> heads[k].projectName]
                = SelectSeq(ProjectOrder, LAMBDA n : n \in DOMAIN mm.projects)
                    \o (IF Len(loose) > 0 THEN <<StandaloneName>> ELSE <<>>)
           /\ fl # <<>> => fl[1].isProject
           /\ \A i \in 1..Len(fl) :
                fl[i].isProject =>
                    LET n == fl[i].projectName
                        cs == members(n)
                    IN /\ fl[i].total = Len(cs)
                       /\ n # StandaloneName =>
                            fl[i].running
                                = Cardinality({j \in 1..Len(cs) : cs[j].State = "running"})
                       /\ [k \in 1..Len(body(i)) |-> body(i)[k].container.val]
                            = (IF n \in DOMAIN mm.expandedProjects /\ mm.expandedProjects[n]
                               THEN cs ELSE <<>>)

\* project web = {1, 2} expanded and the standalone container 3 expanded
\* flatten to header(web), 1, 2, header(Standalone Containers), 3
C12_WebAndStandaloneFlattened ==
    /\ call.fn = "buildFlatList"
    /\ call.arg.containers = <<cA, cB, cC>>
    /\ DOMAIN call.arg.projects = {"web"}
    /\ [i \in 1..Len(m.flatList) |->
          IF m.flatList[i].isProject THEN m.flatList[i].projectName
          ELSE m.flatList[i].container.val.ID]
         = <<"web", 1, 2, StandaloneName, 3>>
    /\ m.flatList[1].running = 1
    /\ m.flatList[1].total = 2

----------------------------------------------------------------------------
(* SpecSort: sorting by the selected column, in the flat and compose views *)
NextSort ==
    \/ ContainersDone
    \/ ComposeDone
    \/ TickFires
    \/ PressCompose
    \/ PressTab
    \/ PressEnter

SpecSort == Init /\ [][NextSort]_vars

\* a before b agrees with sort column col and direction asc (equal keys agree)
inSortOrder(col, asc, a, b) ==
    IF asc THEN ~lessContainer(col, b, a) ELSE ~lessContainer(col, a, b)

\* C13: whenever compose view is displayed, the member rows under every
\* expanded project header are ordered by the current sort column and
\* direction with the comparator of the flat list, after every
\* compose-projects refresh as well as after every sort change.
C13_MembersFollowSortOrder ==
    m.composeViewMode =>
        \A i \in 1..(Len(m.flatList) - 1) :
            (~m.flatList[i].isProject /\ ~m.flatList[i + 1].isProject) =>
                inSortOrder(m.sortBy, m.sortAsc,
                            m.flatList[i].container.val, m.flatList[i + 1].container.val)

\* sorted by status ascending, and a compose refresh listed the running
\* member of web ahead of the exited one
C13_RefreshLeftMembersUnsorted ==
    /\ m.composeViewMode
    /\ m.sortBy = sortByStatus
    /\ m.sortAsc
    /\ m.containers = <<cB, cA>>
    /\ Len(m.flatList) = 3
    /\ m.flatList[2].container.val = cA
    /\ m.flatList[3].container.val = cB

----------------------------------------------------------------------------
(* SpecToggle: Enter in column mode, on any list the model can hold, each   *)
(* Update recorded                                                          *)
Reverse(s) == [i \in 1..Len(s) |-> s[Len(s) + 1 - i]]

ToggleListings ==
    {<<>>, <<cA, cB>>, <<cB, cA>>, <<cA, cB, cC>>, <<cA, cC, cB>>, <<cB, cA, cC>>,
     <<cB, cC, cA>>, <<cC, cA, cB>>, <<cC, cB, cA>>}

\* column mode over a list held sorted by the sort column and direction
ToggleInputs ==
    {[InitialModel(NoFile) EXCEPT !.containers = sortSlice(l, col, asc),
                                  !.sortBy = col, !.sortAsc = asc,
                                  !.selectedColumn = sel, !.columnMode = TRUE,
                                  !.currentMode = modeColumnSelect, !.loading = FALSE]
        : l \in ToggleListings, col \in sortByID..sortByPorts, asc \in BOOLEAN,
          sel \in 0..LastColumn}

InitToggle ==
    /\ m \in ToggleInputs
    /\ cfgFile = NoFile
    /\ treeNav = "step"
    /\ inflight = EmptyBag
    /\ lastMsg = NoMsg
    /\ lastCmds = <<>>
    /\ lastIO = <<>>
    /\ quit = FALSE
    /\ ghost = [NoGhost EXCEPT !.on = TRUE]
    /\ call = NoCall

NextToggle ==
    \/ PressEnter
    \/ PressLeft
    \/ PressRight

SpecToggle == InitToggle /\ [][NextToggle]_vars

\* the step processes the Enter key
EnterPressed == lastMsg'.type = "Key" /\ lastMsg'.key = "enter"

\* C14: in ColumnSelect mode, Enter on the column that is the sort column
\* flips the direction and keeps the column; Enter on another column makes
\* it the sort column with direction ascending; in both cases the collection
\* held is re-sorted by the new column and direction.
C14_EnterTogglesOrSelects ==
    [][(EnterPressed /\ m.currentMode = modeColumnSelect) =>
          /\ IF m.sortBy = m.selectedColumn
             THEN m'.sortBy = m.sortBy /\ m'.sortAsc = ~m.sortAsc
             ELSE m'.sortBy = m.selectedColumn /\ m'.sortAsc
          /\ Len(m'.containers) = Len(m.containers)
          /\ Range(m'.containers) = Range(m.containers)
          /\ \A i \in 1..(Len(m'.containers) - 1) :
                inSortOrder(m'.sortBy, m'.sortAsc, m'.containers[i], m'.containers[i + 1])]_vars

\* Enter on the id column, already the sort column, turned the list held
\* to descending ids
C14_IdOrderFlipped ==
    /\ lastMsg = KeyMsg("enter")
    /\ m.currentMode = modeColumnSelect
    /\ m.selectedColumn = 0
    /\ m.sortBy = sortByID
    /\ ~m.sortAsc
    /\ m.containers = <<cC, cB, cA>>

\* C15: for every container collection, equal sort keys included, the order
\* produced by selecting a column twice in a row is exactly the reverse of
\* the order produced by selecting it once.
C15_SecondSelectionReverses ==
    [][(lastMsg = KeyMsg("enter") /\ EnterPressed /\ m.columnMode)
          => m'.containers = Reverse(m.containers)]_vars

\* the status column selected again turned a descending list to ascending
\* with the two running containers in the order they had before
C15_TiesNotReversed ==
    /\ lastMsg = KeyMsg("enter")
    /\ m.sortBy = sortByStatus
    /\ m.selectedColumn = 7
    /\ m.sortAsc
    /\ m.containers = <<cB, cC, cA>>


----------------------------------------------------------------------------
(* Esc and the mode keys, in every state the mode keys can reach *)
\* the model after the key is processed in the current state
afterKey(key) ==
    Update(m, KeyMsg(key), [file |-> cfgFile, saveOk |-> TRUE, nav |-> treeNav]).m

\* C16: from every mode other than Normal (ColumnSelect, Logs, Info,
\* Settings, ComposeView, Help) one press of Esc leaves the application in
\* Normal mode.
C16_EscLeavesToNormal ==
    m.currentMode # modeNormal => afterKey("esc").currentMode = modeNormal

\* the help screen is open, no panel and no column selection with it, and
\* Esc is processed without leaving Help
C16_EscIgnoredInHelp ==
    /\ m.currentMode = modeHelp
    /\ ~(m.columnMode \/ m.logsVisible \/ m.infoVisible)
    /\ afterKey("esc").currentMode = modeHelp


\* the key that enters each mode
EnterKeys ==
    [ColumnSelect |-> {"tab"}, Logs |-> {"l", "L"}, Info |-> Info,
     Settings |-> {"f2"}, ComposeView |-> {"c", "C"}, Help |-> {"?"}]

\* C17: pressing the key that enters the current mode while already in that
\* mode (Tab in ColumnSelect, the logs key in Logs, the info key in Info, F2
\* in Settings, the compose key in ComposeView, ? in Help) returns the mode
\* to Normal.
C17_EnterKeyReturnsToNormal ==
    \A mode \in DOMAIN EnterKeys :
        m.currentMode = mode =>
            \A key \in EnterKeys[mode] : afterKey(key).currentMode = modeNormal

\* the compose view is open in mode ComposeView, and the compose key closes
\* the view with the mode still ComposeView
C17_ComposeKeyKeepsComposeMode ==
    /\ m.currentMode = modeComposeView
    /\ m.composeViewMode
    /\ ~afterKey("c").composeViewMode
    /\ afterKey("c").currentMode = modeComposeView


----------------------------------------------------------------------------
(* The docker client: ListContainers and FetchComposeProjects              *)
(* A status text is a sequence of words; the words listed here are the     *)
(* ones whose letters the prefix and substring tests of the client tell    *)
(* apart.  " " is white space.                                             *)
StatusWords ==
    {" ", "Up", "upgrading", "Paused", "unpaused", "Restarting", "Exited",
     "Dead", "Created", "recreated", "Stopping", "ago"}

\* strings.ToLower on one word
ToLowerWord(w) ==
    CASE w = "Up" -> "up"
      [] w = "Paused" -> "paused"
      [] w = "Restarting" -> "restarting"
      [] w = "Exited" -> "exited"
      [] w = "Dead" -> "dead"
      [] w = "Created" -> "created"
      [] w = "Running" -> "running"
      [] w = "Stopping" -> "stopping"
      [] OTHER -> w

ToLower(s) == [i \in DOMAIN s |-> ToLowerWord(s[i])]

RECURSIVE TrimLeft(_)
TrimLeft(s) == IF s # <<>> /\ Head(s) = " " THEN TrimLeft(Tail(s)) ELSE s

RECURSIVE TrimRight(_)
TrimRight(s) ==
    IF s # <<>> /\ s[Len(s)] = " " THEN TrimRight(SubSeq(s, 1, Len(s) - 1)) ELSE s

TrimSpace(s) == TrimRight(TrimLeft(s))

\* the texts "up", "paused", ... a lower-case word starts with
WordPrefixes(w) ==
    CASE w \in {"up", "upgrading"} -> {"up"}
      [] w \in {"paused", "restarting", "exited", "dead", "created"} -> {w}
      [] OTHER -> {}

\* the texts a lower-case word contains
WordParts(w) ==
    WordPrefixes(w) \cup
        (CASE w = "unpaused" -> {"paused"}
           [] w = "recreated" -> {"created"}
           [] OTHER -> {})

HasPrefix(s, text) == s # <<>> /\ text \in WordPrefixes(s[1])

Contains(s, text) == \E i \in DOMAIN s : text \in WordParts(s[i])

\* strings.TrimSuffix(unit, ".service")
TrimSuffixService(unit) == IF unit = "db.service" THEN "db" ELSE unit

\* the State the docker branch derives from the Status of an entry
dockerState(status) ==
    LET st == ToLower(TrimSpace(status)) IN
    IF HasPrefix(st, "up") THEN "running"
    ELSE IF HasPrefix(st, "paused") \/ Contains(st, "paused") THEN "paused"
    ELSE IF Contains(st, "restarting") THEN "restarting"
    ELSE IF HasPrefix(st, "exited") \/ Contains(st, "exited") \/ Contains(st, "dead")
    THEN "exited"
    ELSE IF HasPrefix(st, "created") THEN "created"
    ELSE "unknown"

\* one record of the engine's output: ok is false when json.Unmarshal of
\* the record fails
RawEntry(ok, id, status, state, project, unit) ==
    [ok |-> ok, ID |-> id, Status |-> status, State |-> state,
     Project |-> project, Unit |-> unit]

\* the compose project of a podman entry: the compose label, else the
\* systemd unit without its suffix
podmanProject(e) ==
    IF e.Project # "" THEN e.Project ELSE TrimSuffixService(e.Unit)

podmanContainer(e) == Container(e.ID, ToLowerWord(e.State), podmanProject(e))

dockerContainer(e) == Container(e.ID, dockerState(e.Status), "")

dockerComposeContainer(e) == Container(e.ID, dockerState(e.Status), e.Project)

\* json.Unmarshal of the whole output into a slice of entries succeeds
arrayParses(out) == out.format = "array" /\ \A i \in DOMAIN out.records : out.records[i].ok

\* the lines bufio.Scanner yields: one record per line, or the whole array,
\* which is no entry, on one line
scanLines(out) ==
    IF out.format = "lines" THEN out.records
    ELSE <<RawEntry(FALSE, 0, <<>>, "", "", "")>>

RECURSIVE mapEntries(_, _)
mapEntries(runtime, es) ==
    IF es = <<>> THEN <<>>
    ELSE <<IF runtime = "podman" THEN podmanContainer(Head(es)) ELSE dockerContainer(Head(es))>>
             \o mapEntries(runtime, Tail(es))

ListContainers(runtime, out) ==
    IF runtime = "podman"
    THEN IF arrayParses(out)
         THEN [containers |-> mapEntries(runtime, out.records), err |-> ""]
         ELSE [containers |-> mapEntries(runtime, SelectSeq(scanLines(out), LAMBDA e : e.ok)),
               err |-> ""]
    ELSE IF \E i \in DOMAIN scanLines(out) : ~scanLines(out)[i].ok
         THEN [containers |-> <<>>, err |-> "parsing docker output"]
         ELSE [containers |-> mapEntries(runtime, scanLines(out)), err |-> ""]

\* projects[name].Containers = append(projects[name].Containers, c)
addToProject(ps, name, c) ==
    [n \in DOMAIN ps \cup {name} |->
        IF n = name THEN (IF n \in DOMAIN ps THEN Append(ps[n], c) ELSE <<c>>) ELSE ps[n]]

RECURSIVE groupEntries(_, _, _)
groupEntries(runtime, es, ps) ==
    IF es = <<>> THEN ps
    ELSE LET e == Head(es)
             c == IF runtime = "podman" THEN podmanContainer(e) ELSE dockerComposeContainer(e)
         IN IF ~e.ok \/ c.ComposeProject = ""
            THEN groupEntries(runtime, Tail(es), ps)
            ELSE groupEntries(runtime, Tail(es), addToProject(ps, c.ComposeProject, c))

FetchComposeProjects(runtime, out) ==
    IF runtime = "podman"
    THEN IF arrayParses(out)
         THEN [projects |-> groupEntries(runtime, out.records, NoProjects), err |-> ""]
         ELSE [projects |-> NoProjects, err |-> "parsing podman compose output"]
    ELSE [projects |-> groupEntries(runtime, scanLines(out), NoProjects), err |-> ""]


----------------------------------------------------------------------------
(* SpecListing: the two listings applied to the output of either engine *)
MaxStatusWords == 2
MaxRecords == 3

\* what runtimeBin returns
runtimeBin == {"docker", "podman"}

Statuses == UNION {[1..n -> StatusWords] : n \in 0..MaxStatusWords}

\* the State field the engine reports for an entry
EngineStates == {"running", "Running", "stopping"}

rawUp == RawEntry(TRUE, 1, <<"Up", "ago">>, "running", "web", "")
rawExited == RawEntry(TRUE, 2, <<"Exited">>, "exited", "", "")
rawUnit == RawEntry(TRUE, 3, <<"Created">>, "created", "", "db.service")
rawMalformed == RawEntry(FALSE, 0, <<>>, "", "", "")

RawListings ==
    {<<RawEntry(TRUE, 1, st, state, "web", "")>> : st \in Statuses, state \in EngineStates}
        \cup UNION {[1..n -> {rawUp, rawExited, rawUnit, rawMalformed}] : n \in 0..MaxRecords}

\* the layout of the output of the command each listing runs
psFormats(fn, runtime) ==
    IF runtime = "docker" THEN {"lines"}
    ELSE IF fn = "ListContainers" THEN {"array", "lines"}
    ELSE {"array"}

InitListing ==
    /\ m = InitialModel(NoFile)
    /\ cfgFile = NoFile
    /\ treeNav = "step"
    /\ inflight = EmptyBag
    /\ lastMsg = NoMsg
    /\ lastCmds = <<>>
    /\ lastIO = <<>>
    /\ quit = FALSE
    /\ ghost = NoGhost
    /\ call \in {[fn |-> "output", arg |-> [runtime |-> rt, records |-> rs], result |-> <<>>]
                    : rt \in runtimeBin, rs \in RawListings}

RunListContainers ==
    /\ call.fn = "output"
    /\ \E format \in psFormats("ListContainers", call.arg.runtime) :
         call' = [call EXCEPT !.fn = "ListContainers",
                              !.result = ListContainers(call.arg.runtime,
                                            [format |-> format, records |-> call.arg.records])]
    /\ UNCHANGED m
    /\ StaysAtRest

RunFetchComposeProjects ==
    /\ call.fn = "output"
    /\ \E format \in psFormats("FetchComposeProjects", call.arg.runtime) :
         call' = [call EXCEPT !.fn = "FetchComposeProjects",
                              !.result = FetchComposeProjects(call.arg.runtime,
                                            [format |-> format, records |-> call.arg.records])]
    /\ UNCHANGED m
    /\ StaysAtRest

NextListing ==
    \/ RunListContainers
    \/ RunFetchComposeProjects

SpecListing == InitListing /\ [][NextListing]_vars

\* the containers a finished listing returned
listed ==
    IF call.fn = "ListContainers" THEN Range(call.result.containers)
    ELSE IF call.fn = "FetchComposeProjects"
    THEN UNION {Range(call.result.projects[n]) : n \in DOMAIN call.result.projects}
    ELSE {}

\* the first matching rule on a lower-cased, trimmed status text
RuleState(st) ==
    CASE HasPrefix(st, "up") -> "running"
      [] ~HasPrefix(st, "up") /\ Contains(st, "paused") -> "paused"
      [] ~HasPrefix(st, "up") /\ ~Contains(st, "paused") /\ Contains(st, "restarting")
           -> "restarting"
      [] ~HasPrefix(st, "up") /\ ~Contains(st, "paused") /\ ~Contains(st, "restarting")
           /\ (Contains(st, "exited") \/ Contains(st, "dead")) -> "exited"
      [] ~HasPrefix(st, "up") /\ ~Contains(st, "paused") /\ ~Contains(st, "restarting")
           /\ ~(Contains(st, "exited") \/ Contains(st, "dead")) /\ HasPrefix(st, "created")
           -> "created"
      [] OTHER -> "unknown"

\* C18: for every raw listing entry from either engine the normalized State
\* is decided from the lower-cased, trimmed status text by the first
\* matching rule (starts with "up" -> running; contains "paused" -> paused;
\* contains "restarting" -> restarting; contains "exited" or "dead" ->
\* exited; starts with "created" -> created; otherwise unknown), hence it is
\* one of running, paused, restarting, exited, created, unknown.
C18_StateByFirstMatchingRule ==
    \A c \in listed :
        /\ c.State \in {"running", "paused", "restarting", "exited", "created", "unknown"}
        /\ \E i \in DOMAIN call.arg.records :
             /\ call.arg.records[i].ok
             /\ call.arg.records[i].ID = c.ID
             /\ c.State = RuleState(ToLower(TrimSpace(call.arg.records[i].Status)))

\* podman listed an entry whose status text reads "Stopping" and whose State
\* field reads "stopping": the container is returned as "stopping"
C18_PodmanStateNotFromStatus ==
    /\ call.fn = "ListContainers"
    /\ call.arg.runtime = "podman"
    /\ call.arg.records = <<RawEntry(TRUE, 1, <<"Stopping">>, "stopping", "web", "")>>
    /\ call.result.containers = <<Container(1, "stopping", "web")>>

\* the docker branch alone: the State of every entry docker lists follows
\* the first matching rule
DockerStateByFirstMatchingRule ==
    call.arg.runtime = "docker" => C18_StateByFirstMatchingRule


\* exactly one record of the output is unparsable, among valid ones
oneMalformed(rs) ==
    /\ Cardinality({i \in DOMAIN rs : ~rs[i].ok}) = 1
    /\ \E i \in DOMAIN rs : rs[i].ok

\* the identifiers of a sequence of containers, in order
idsOf(cs) == [i \in DOMAIN cs |-> cs[i].ID]

\* the valid record carries a compose project for the engine
inCompose(runtime, e) ==
    e.ok /\ (e.Project # "" \/ (runtime = "podman" /\ e.Unit # ""))

\* C19: when the engine's output holds one unparsable record among valid
\* ones, the container listing and the compose-project listing still return
\* without error, with every valid record and only the malformed one
\* omitted, for both engines.
C19_MalformedRecordSkipped ==
    oneMalformed(call.arg.records) =>
        /\ call.fn = "ListContainers" =>
             /\ call.result.err = ""
             /\ idsOf(call.result.containers)
                    = idsOf(SelectSeq(call.arg.records, LAMBDA e : e.ok))
        /\ call.fn = "FetchComposeProjects" =>
             /\ call.result.err = ""
             /\ \A i \in DOMAIN call.arg.records :
                    inCompose(call.arg.runtime, call.arg.records[i]) =>
                        \E c \in listed : c.ID = call.arg.records[i].ID
             /\ \A c \in listed :
                    \E i \in DOMAIN call.arg.records :
                        /\ inCompose(call.arg.runtime, call.arg.records[i])
                        /\ c.ID = call.arg.records[i].ID

\* docker printed a valid line, an unparsable line and a valid line, and
\* the container listing returned the parse error and no container
C19_DockerListingFailsWhole ==
    /\ call.fn = "ListContainers"
    /\ call.arg.runtime = "docker"
    /\ call.arg.records = <<rawUp, rawMalformed, rawExited>>
    /\ call.result.err = "parsing docker output"
    /\ call.result.containers = <<>>


----------------------------------------------------------------------------
(* View: the widths of the nine columns *)
MinWidth == 80
ChromeWidth == 2

mins == <<13, 17, 8, 6, 10, 11, 11, 13, 15>>

\* the percentages View falls back to when the setting has not nine entries
ViewPercents == <<8, 14, 6, 6, 10, 12, 11, 13, 15>>

usableWidth(terminalWidth) == Max(terminalWidth, MinWidth) - ChromeWidth

\* for remaining > 0 { for i := range widths { widths[i]++; remaining-- } }
RECURSIVE distribute(_, _, _)
distribute(widths, remaining, i) ==
    IF remaining <= 0 THEN widths
    ELSE distribute([widths EXCEPT ![i] = @ + 1], remaining - 1, (i % Len(widths)) + 1)

columnWidths(terminalWidth, columnPercents) ==
    LET usable == usableWidth(terminalWidth)
        percents == IF Len(columnPercents) # 9 THEN ViewPercents ELSE columnPercents
        widths == [i \in 1..Len(mins) |-> Max(mins[i], GoDiv(usable * percents[i], 100))]
        allocated == SumSeq(widths)
    IN IF allocated < usable THEN distribute(widths, usable - allocated, 1) ELSE widths

(* SpecColumns: View on the terminal widths and the percentage settings *)
MaxWidth == 130
MaxPercentEdit == 3

\* the settings: none, the defaults, and the defaults with one column edited
ColumnSettings ==
    {<<>>, DefaultPercents}
        \cup {[DefaultPercents EXCEPT ![i] = @ + d]
                 : i \in 1..Len(DefaultPercents), d \in (0 - MaxPercentEdit)..MaxPercentEdit}
        \cup {normalizePercents([DefaultPercents EXCEPT ![i] = @ + d])
                 : i \in 1..Len(DefaultPercents), d \in (0 - MaxPercentEdit)..MaxPercentEdit}

InitColumns ==
    /\ m = InitialModel(NoFile)
    /\ cfgFile = NoFile
    /\ treeNav = "step"
    /\ inflight = EmptyBag
    /\ lastMsg = NoMsg
    /\ lastCmds = <<>>
    /\ lastIO = <<>>
    /\ quit = FALSE
    /\ ghost = NoGhost
    /\ call \in {[fn |-> "window", arg |-> [terminalWidth |-> w, percents |-> ps],
                  result |-> <<>>] : w \in 1..MaxWidth, ps \in ColumnSettings}

View ==
    /\ call.fn = "window"
    /\ call' = [call EXCEPT !.fn = "View",
                            !.result = columnWidths(call.arg.terminalWidth, call.arg.percents)]
    /\ UNCHANGED m
    /\ StaysAtRest

NextColumns == View

SpecColumns == InitColumns /\ [][NextColumns]_vars

\* C20: for every terminal width and every column-percentage setting the
\* nine allocated column widths sum to exactly the usable width (the
\* effective width, at least 80, minus 2 columns of chrome) and each
\* allocated width is at least its minimum (13, 17, 8, 6, 10, 11, 11, 13, 15).
C20_WidthsFillUsableWidth ==
    call.fn = "View" =>
        /\ Len(call.result) = 9
        /\ SumSeq(call.result) = Max(call.arg.terminalWidth, 80) - 2
        /\ \A i \in 1..9 : call.result[i] >= <<13, 17, 8, 6, 10, 11, 11, 13, 15>>[i]

\* an 80-column terminal with the default percentages: no column gets less
\* than its minimum and the nine widths sum to 107, more than the 78 usable
C20_MinimumsOverflowNarrowTerminal ==
    /\ call.fn = "View"
    /\ call.arg = [terminalWidth |-> 80, percents |-> DefaultPercents]
    /\ call.result = <<13, 17, 8, 6, 10, 11, 14, 13, 15>>
    /\ SumSeq(call.result) = 107


----------------------------------------------------------------------------
(* parseNetIO and parseSize: a text is a sequence of characters; "dash" is  *)
(* the box-drawing character of a container without statistics.  A float   *)
(* is held exactly, as sign and magnitude in hundredths, the magnitude     *)
(* being hi * 10^8 + lo.                                                   *)
Float(neg, hi, lo) == [neg |-> neg /\ (hi # 0 \/ lo # 0), hi |-> hi, lo |-> lo]

Zero == Float(FALSE, 0, 0)

\* the float of a count of hundredths below 10^8 in magnitude
Hundredths(n) == IF n < 0 THEN Float(TRUE, 0, 0 - n) ELSE Float(FALSE, 0, n)

magLess(a, b) == a.hi < b.hi \/ (a.hi = b.hi /\ a.lo < b.lo)

addMag(neg, a, b) ==
    Float(neg, a.hi + b.hi + ((a.lo + b.lo) \div 100000000), (a.lo + b.lo) % 100000000)

\* a minus b in magnitude, for b not above a
subMag(neg, a, b) ==
    IF a.lo >= b.lo THEN Float(neg, a.hi - b.hi, a.lo - b.lo)
    ELSE Float(neg, a.hi - b.hi - 1, a.lo + 100000000 - b.lo)

FloatAdd(a, b) ==
    IF a.neg = b.neg THEN addMag(a.neg, a, b)
    ELSE IF magLess(a, b) THEN subMag(b.neg, b, a)
    ELSE subMag(a.neg, a, b)

timesTen(a) == Float(a.neg, a.hi * 10 + ((a.lo * 10) \div 100000000), (a.lo * 10) % 100000000)

\* a * 1000
timesThousand(a) == timesTen(timesTen(timesTen(a)))

RECURSIVE FloatSum(_)
FloatSum(fs) == IF fs = <<>> THEN Zero ELSE FloatAdd(Head(fs), FloatSum(Tail(fs)))

DigitVal(ch) ==
    CASE ch = "0" -> 0 [] ch = "1" -> 1 [] ch = "2" -> 2 [] ch = "3" -> 3
      [] ch = "4" -> 4 [] ch = "5" -> 5 [] ch = "6" -> 6 [] ch = "7" -> 7
      [] ch = "8" -> 8 [] ch = "9" -> 9 [] OTHER -> -1

isDigit(ch) == DigitVal(ch) >= 0

\* strings.ToLower on one character
ToLowerChar(ch) ==
    CASE ch = "B" -> "b" [] ch = "K" -> "k" [] ch = "M" -> "m" [] ch = "G" -> "g"
      [] ch = "T" -> "t" [] ch = "I" -> "i" [] OTHER -> ch

\* strings.ReplaceAll(s, ",", "")
removeCommas(s) == SelectSeq(s, LAMBDA ch : ch # ",")

RECURSIVE digitsValue(_, _)
digitsValue(ds, acc) ==
    IF ds = <<>> THEN acc ELSE digitsValue(Tail(ds), acc * 10 + DigitVal(Head(ds)))

\* strconv.ParseFloat on a text of digits, "." and "-": an optional sign,
\* digits with at most one point, at least one digit
ParseFloat(num) ==
    LET neg == num # <<>> /\ Head(num) = "-"
        body == IF neg THEN Tail(num) ELSE num
        dots == {i \in DOMAIN body : body[i] = "."}
        dot == IF dots = {} THEN Len(body) + 1 ELSE CHOOSE i \in dots : TRUE
        whole == SubSeq(body, 1, dot - 1)
        frac == SubSeq(body, dot + 1, Len(body))
        ok == /\ \A i \in DOMAIN body : body[i] # "-"
              /\ Cardinality(dots) <= 1
              /\ Len(whole) + Len(frac) > 0
        mag == digitsValue(whole, 0) * 100
                 + (IF Len(frac) >= 1 THEN DigitVal(frac[1]) * 10 ELSE 0)
                 + (IF Len(frac) >= 2 THEN DigitVal(frac[2]) ELSE 0)
    IN [ok |-> ok, val |-> IF ~ok THEN Zero ELSE Hundredths(IF neg THEN 0 - mag ELSE mag)]

\* the length of the leading run of digits, "." and "-"
RECURSIVE numLen(_)
numLen(s) ==
    IF s # <<>> /\ (isDigit(Head(s)) \/ Head(s) \in {".", "-"})
    THEN 1 + numLen(Tail(s)) ELSE 0

parseSize(s0) ==
    LET s == removeCommas(TrimSpace(s0))
        n == numLen(s)
        num == SubSeq(s, 1, n)
        unit == [i \in DOMAIN TrimSpace(SubSeq(s, n + 1, Len(s))) |->
                    ToLowerChar(TrimSpace(SubSeq(s, n + 1, Len(s)))[i])]
        f == ParseFloat(num)
    IN IF TrimSpace(s0) = <<>> THEN Zero
       ELSE IF num = <<>> THEN Zero
       ELSE IF ~f.ok THEN Zero
       ELSE IF unit \in {<<"b">>, <<"b", "y", "t", "e", "s">>, <<"b", "y", "t", "e">>, <<>>}
       THEN f.val
       ELSE IF unit \in {<<"k", "b">>, <<"k", "i", "b">>} THEN timesThousand(f.val)
       ELSE IF unit \in {<<"m", "b">>, <<"m", "i", "b">>}
       THEN timesThousand(timesThousand(f.val))
       ELSE IF unit \in {<<"g", "b">>, <<"g", "i", "b">>}
       THEN timesThousand(timesThousand(timesThousand(f.val)))
       ELSE f.val

\* strings.Split(s, "/")
RECURSIVE Split(_)
Split(s) ==
    IF \A i \in DOMAIN s : s[i] # "/" THEN <<s>>
    ELSE LET k == CHOOSE i \in DOMAIN s : s[i] = "/" /\ \A j \in 1..(i - 1) : s[j] # "/"
         IN <<SubSeq(s, 1, k - 1)>> \o Split(SubSeq(s, k + 1, Len(s)))

RECURSIVE sumSizes(_)
sumSizes(parts) ==
    IF parts = <<>> THEN Zero
    ELSE FloatAdd(IF TrimSpace(Head(parts)) = <<>> THEN Zero
                  ELSE parseSize(TrimSpace(Head(parts))),
                  sumSizes(Tail(parts)))

parseNetIO(s0) ==
    LET s == TrimSpace(s0) IN
    IF s = <<>> \/ s = <<"dash">> THEN Zero ELSE sumSizes(Split(s))


(* SpecSize: parseNetIO on the texts "<v1><u1> / <v2><u2>" *)
\* number texts with the value they denote (in hundredths), ok = FALSE
\* when the text denotes no number
SizeNumbers ==
    {[text |-> <<"1", ".", "2">>, ok |-> TRUE, val |-> 120],
     [text |-> <<"8", "5", "0">>, ok |-> TRUE, val |-> 85000],
     [text |-> <<"0">>, ok |-> TRUE, val |-> 0],
     [text |-> <<"1", ",", "0", "0", "0">>, ok |-> TRUE, val |-> 100000],
     [text |-> <<"-", "5">>, ok |-> TRUE, val |-> -500],
     [text |-> <<"1", ".", "2", ".", "3">>, ok |-> FALSE, val |-> 0],
     [text |-> <<"-">>, ok |-> FALSE, val |-> 0],
     [text |-> <<>>, ok |-> FALSE, val |-> 0]}

\* unit texts with the thousands in their factor in the unit table, -1
\* when the table does not hold the unit; a bare number counts as bytes
SizeUnits ==
    {[text |-> <<>>, factor |-> 0],
     [text |-> <<"B">>, factor |-> 0],
     [text |-> <<"b">>, factor |-> 0],
     [text |-> <<"k", "B">>, factor |-> 1],
     [text |-> <<"K", "i", "B">>, factor |-> 1],
     [text |-> <<"M", "B">>, factor |-> 2],
     [text |-> <<"M", "i", "B">>, factor |-> 2],
     [text |-> <<"G", "B">>, factor |-> 3],
     [text |-> <<"G", "i", "B">>, factor |-> 3],
     [text |-> <<"T", "B">>, factor |-> -1],
     [text |-> <<"T", "i", "B">>, factor |-> -1]}

SizeSides == {[num |-> n, unit |-> u] : n \in SizeNumbers, u \in SizeUnits}

sideText(side) == side.num.text \o side.unit.text

\* the text of a statistics field: one side, or two sides around " / "
netIOText(sides) ==
    IF Len(sides) = 1 THEN sideText(sides[1])
    ELSE sideText(sides[1]) \o <<" ", "/", " ">> \o sideText(sides[2])

InitSize ==
    /\ m = InitialModel(NoFile)
    /\ cfgFile = NoFile
    /\ treeNav = "step"
    /\ inflight = EmptyBag
    /\ lastMsg = NoMsg
    /\ lastCmds = <<>>
    /\ lastIO = <<>>
    /\ quit = FALSE
    /\ ghost = NoGhost
    /\ call \in {[fn |-> "text", arg |-> sides, result |-> <<>>]
                    : sides \in {<<a>> : a \in SizeSides}
                                  \cup {<<a, b>> : a \in SizeSides, b \in SizeSides}}

ParseNetIO ==
    /\ call.fn = "text"
    /\ call' = [call EXCEPT !.fn = "parseNetIO", !.result = parseNetIO(netIOText(call.arg))]
    /\ UNCHANGED m
    /\ StaysAtRest

NextSize == ParseNetIO

SpecSize == InitSize /\ [][NextSize]_vars

RECURSIVE timesThousands(_, _)
timesThousands(a, n) == IF n = 0 THEN a ELSE timesThousands(timesThousand(a), n - 1)

\* the bytes a side stands for by the unit table, 0 when its number or its
\* unit cannot be parsed
sideBytes(side) ==
    IF side.num.ok /\ side.unit.factor >= 0
    THEN timesThousands(Hundredths(side.num.val), side.unit.factor) ELSE Zero

\* C21: parseNetIO applied to "<v1><u1> / <v2><u2>" returns the sum of both
\* sides, each side being its value times 1 (b), 1000 (kB or KiB), 10^6 (MB
\* or MiB) or 10^9 (GB or GiB); a side that cannot be parsed with this unit
\* table contributes 0; "1.2kB / 850B" gives 2050.
C21_NetIOSumsBothSides ==
    call.fn = "parseNetIO" =>
        call.result = FloatSum([i \in DOMAIN call.arg |-> sideBytes(call.arg[i])])

\* "1.2TB / 850B" was parsed: the side in terabytes counts as 1.2 bytes and
\* the result is 851.2
C21_TerabytesCountAsBytes ==
    /\ call.fn = "parseNetIO"
    /\ netIOText(call.arg) = <<"1", ".", "2", "T", "B", " ", "/", " ", "8", "5", "0", "B">>
    /\ call.result = Hundredths(85120)


----------------------------------------------------------------------------
(* SpecSave: the settings screen with its save key, the debug key, the     *)
(* Tick and the container fetch, each Update recorded                      *)
\* the settings file at startup: missing, unreadable, or written by an
\* earlier save
SaveFiles ==
    {NoFile, BadFile, FileOf(DefaultConfig),
     FileOf(Config(DefaultPercents, DefaultPollRate, RuntimePodman, "/bin/bash"))}

\* the settings after some editing in the settings screen
editedSettings(st) ==
    {st,
     [st EXCEPT !.Runtime = toggleRuntime(@)],
     [st EXCEPT !.ColumnPercents[1] = @ + 1],
     [st EXCEPT !.RefreshInterval = @ + 1]}

\* the program started on the file and F2 opened the settings screen
SaveInputs(file) ==
    {[InitialModel(file) EXCEPT !.currentMode = modeSettings, !.suspendRefresh = TRUE,
                                !.statusMessage = "Settings", !.settings = st]
        : st \in editedSettings(InitialModel(file).settings)}

InitSave ==
    /\ cfgFile \in SaveFiles
    /\ m \in SaveInputs(cfgFile)
    /\ treeNav = "step"
    /\ inflight = BagOfSeq(InitCmds(InitialModel(cfgFile)))
    /\ lastMsg = NoMsg
    /\ lastCmds = <<>>
    /\ lastIO = <<"load">>
    /\ quit = FALSE
    /\ ghost = [NoGhost EXCEPT !.on = TRUE, !.dispatched = 1]
    /\ call = NoCall

NextSave ==
    \/ PressF2
    \/ PressStart
    \/ PressEsc
    \/ PressDebug
    \/ TickFires
    \/ ContainersDone
    \/ QuitDelivered

SpecSave == InitSave /\ [][NextSave]_vars

\* C22: the update step performs no I/O and no other side effect itself,
\* for any message or key: every file read or write and every engine call
\* happens inside a dispatched command, also when settings are saved.
C22_UpdatePerformsNoIO == lastMsg # NoMsg => lastIO = <<>>

\* the save key was processed in Settings and Update itself loaded and
\* saved the settings file
C22_SaveKeyWroteInUpdate ==
    /\ lastMsg = KeyMsg("s")
    /\ m.statusMessage = "Settings saved!"
    /\ lastIO = <<"load", "save">>
    /\ cfgFile.exists


\* the reads of the settings file made by the closure whose message is
\* msg: every client call asks runtimeBin, which loads the file
closureIO(msg) ==
    IF msg.type \in {"Containers", "composeProjects", "Logs", "actionDone"}
    THEN <<"load">> ELSE <<>>

\* C23: the settings file is read exactly once, at startup, and written
\* only by the save key in Settings mode: no other transition (editing,
\* leaving Settings by F2 or Esc, ticks, fetches, container actions) reads
\* or writes it.
C23_FileReadOnceWrittenOnSave ==
    [][quit' = quit =>
          /\ "load" \notin Range(lastIO') \cup Range(closureIO(lastMsg'))
          /\ (cfgFile' # cfgFile \/ "save" \in Range(lastIO')) =>
                 (m.currentMode = modeSettings /\ lastMsg' \in {KeyMsg("s"), KeyMsg("S")})]_vars

\* a container fetch completed: its closure loaded the settings file again
C23_FetchReadTheFile ==
    /\ lastMsg.type = "Containers"
    /\ closureIO(lastMsg) = <<"load">>
    /\ ghost.delivered >= 1

\* the file is written by the save key in Settings mode and by nothing else
FileWrittenOnlyOnSave ==
    [][quit' = quit =>
          ((cfgFile' # cfgFile \/ "save" \in Range(lastIO')) =>
               (m.currentMode = modeSettings /\ lastMsg' \in {KeyMsg("s"), KeyMsg("S")}))]_vars


----------------------------------------------------------------------------
(* SpecNotice: container actions and the periodic refresh, with no other   *)
(* key pressed.  The Tick timer fires and every client call runs under a   *)
(* timeout, so the Tick and each completion are weakly fair; a key press   *)
(* is the user's and is not.                                               *)
NextNotice ==
    \/ PressStart
    \/ PressDown
    \/ ActionDone
    \/ ContainersDone
    \/ TickFires

SpecNotice ==
    /\ Init
    /\ [][NextNotice]_vars
    /\ WF_vars(ActionDone)
    /\ WF_vars(ContainersDone)
    /\ WF_vars(TickFires)

\* C24: the error of a failed container action is a transient notice that
\* clears by itself: once shown, a later event clears it without the user
\* having to dismiss it.
C24_ErrorNoticeClears ==
    (m.statusMessage = "Error") ~> (m.statusMessage # "Error")

\* the error notice of a failed action is shown while the refresh keeps
\* running: a Tick is in flight and the container list is loaded
C24_ErrorNoticeShown ==
    /\ m.statusMessage = "Error"
    /\ ~m.loading
    /\ \E c \in BagToSet(inflight) : c.cmd = "tick"

\* the rest of C24: a failed action leaves mode, cursor and containers as
\* they were and returns one FetchContainers
ActionErrorKeepsState ==
    \A e \in {[file |-> cfgFile, saveOk |-> TRUE, nav |-> treeNav]} :
        /\ Update(m, actionDoneMsg("fail"), e).m = [m EXCEPT !.statusMessage = "Error"]
        /\ Update(m, actionDoneMsg("fail"), e).cmds = <<fetchContainers>>


----------------------------------------------------------------------------
(* SpecAct: the container action keys in the flat view and in the compose  *)
(* view, each Update recorded                                              *)
NextAct ==
    \/ ContainersDone
    \/ ComposeDone
    \/ ActionDone
    \/ PressCompose
    \/ PressDown
    \/ PressStart
    \/ PressStop
    \/ PressRestart
    \/ PressRemove

SpecAct == InitRecorded /\ [][NextAct]_vars

\* the verb of each action key
ActionVerbs ==
    [k \in Start \cup Stop \cup Restart \cup Remove |->
        IF k \in Start THEN "start" ELSE IF k \in Stop THEN "stop"
        ELSE IF k \in Restart THEN "restart" ELSE "rm"]

\* the commands an action key with this verb is to dispatch in state mm
actionFor(mm, verb) ==
    IF mm.composeViewMode
    THEN (IF mm.cursor < Len(mm.flatList) /\ ~mm.flatList[mm.cursor + 1].isProject
          THEN <<doAction(verb, mm.flatList[mm.cursor + 1].container.val.ID)>>
          ELSE <<>>)
    ELSE (IF Len(mm.containers) > 0
          THEN <<doAction(verb, mm.containers[mm.cursor + 1].ID)>>
          ELSE <<>>)

\* C25: in row navigation, pressing s, x, r or d with a container row under
\* the cursor dispatches exactly one PerformAction with the verb start,
\* stop, restart or rm and the id of that container; with an empty list,
\* or with the cursor on a project header in compose view, nothing is
\* dispatched.
C25_ActionKeyDispatchesOne ==
    [][(/\ lastMsg'.type = "Key"
        /\ lastMsg'.key \in DOMAIN ActionVerbs
        /\ m.currentMode \in {modeNormal, modeComposeView}
        /\ ~m.columnMode)
          => lastCmds' = actionFor(m, ActionVerbs[lastMsg'.key])]_vars

\* x was pressed in the compose view on the row of container 2 and one stop
\* of container 2 was dispatched
C25_StopDispatchedFromTree ==
    /\ lastMsg = KeyMsg("x")
    /\ m.composeViewMode
    /\ onContainerRow(m)
    /\ m.flatList[m.cursor + 1].container.val.ID = 2
    /\ lastCmds = <<doAction("stop", 2)>>

\* d was pressed in the compose view with the cursor on a project header
\* and nothing was dispatched
C25_HeaderDispatchesNothing ==
    /\ lastMsg = KeyMsg("d")
    /\ m.composeViewMode
    /\ m.cursor < Len(m.flatList)
    /\ m.flatList[m.cursor + 1].isProject
    /\ lastCmds = <<>>


----------------------------------------------------------------------------
(* The settings file on disk: config.Load and Config.Save                  *)
(* A YAML document is a record of its mappings.  A key missing from a      *)
(* document leaves the zero value of its field.                            *)
\* the bytes of a file: text yaml.Unmarshal accepts, and its document
Text(valid, doc) == [valid |-> valid, doc |-> doc]

LayoutKeys ==
    <<"container_id_width", "container_name_width", "memory_width", "cpu_width",
      "net_io_width", "disk_io_width", "image_width", "status_width", "port_width">>

\* yaml.Marshal(c)
Marshal(c) ==
    [layout |-> [k \in Range(LayoutKeys) |->
                    c.Layout[CHOOSE i \in DOMAIN LayoutKeys : LayoutKeys[i] = k]],
     performance |-> [poll_rate |-> c.PollRate],
     runtime |-> [type |-> c.RuntimeType, socket |-> c.Socket],
     exec |-> [shell |-> c.Shell]]

\* the document of an empty file
EmptyDoc ==
    [layout |-> [k \in {} |-> 0], performance |-> [k \in {} |-> 0],
     runtime |-> [k \in {} |-> ""], exec |-> [k \in {} |-> ""]]

\* "invalid: yaml: content:"
InvalidText == Text(FALSE, EmptyDoc)

intField(mapping, key) == IF key \in DOMAIN mapping THEN mapping[key] ELSE 0
stringField(mapping, key) == IF key \in DOMAIN mapping THEN mapping[key] ELSE ""

\* yaml.Unmarshal(data, cfg) into cfg := &Config{}
Unmarshal(doc) ==
    [Layout |-> [i \in DOMAIN LayoutKeys |-> intField(doc.layout, LayoutKeys[i])],
     PollRate |-> intField(doc.performance, "poll_rate"),
     RuntimeType |-> stringField(doc.runtime, "type"),
     Socket |-> stringField(doc.runtime, "socket"),
     Shell |-> stringField(doc.exec, "shell")]

\* the file system as Load and Save see it: pathErr, GetConfigPath fails;
\* writable, the directory can be made and the file written; the file
\* exists or not, can be read or not, and holds a text
Disk(pathErr, writable, exists, readable, data) ==
    [pathErr |-> pathErr, writable |-> writable, exists |-> exists,
     readable |-> readable, data |-> data]

\* a Load that reports the text yaml.Unmarshal rejects
ConfigLoadReportsInvalid(disk) ==
    IF disk.pathErr THEN [cfg |-> DefaultConfig, err |-> ""]
    ELSE IF ~disk.exists THEN [cfg |-> DefaultConfig, err |-> ""]
    ELSE IF ~disk.readable THEN [cfg |-> DefaultConfig, err |-> ""]
    ELSE IF ~disk.data.valid THEN [cfg |-> DefaultConfig, err |-> "yaml"]
    ELSE [cfg |-> Unmarshal(disk.data.doc), err |-> ""]

ConfigLoad(disk) ==
    IF disk.pathErr THEN [cfg |-> DefaultConfig, err |-> ""]
    ELSE IF ~disk.exists THEN [cfg |-> DefaultConfig, err |-> ""]
    ELSE IF ~disk.readable THEN [cfg |-> DefaultConfig, err |-> ""]
    ELSE IF ~disk.data.valid THEN [cfg |-> DefaultConfig, err |-> ""]
    ELSE LET cfg == Unmarshal(disk.data.doc)
         IN [cfg |-> IF cfg.Shell = "" THEN [cfg EXCEPT !.Shell = "/bin/sh"] ELSE cfg,
             err |-> ""]

\* a Save that leaves the socket out of the document
ConfigSaveDropsSocket(disk, c) ==
    IF disk.pathErr THEN [disk |-> disk, err |-> "path"]
    ELSE IF ~disk.writable THEN [disk |-> disk, err |-> "write"]
    ELSE [disk |-> [disk EXCEPT !.exists = TRUE,
                                !.readable = IF disk.exists THEN disk.readable ELSE TRUE,
                                !.data = Text(TRUE, [Marshal(c) EXCEPT !.runtime = [type |-> c.RuntimeType]])],
          err |-> ""]

\* os.WriteFile keeps the mode of a file that exists and makes a new file
\* readable
ConfigSave(disk, c) ==
    IF disk.pathErr THEN [disk |-> disk, err |-> "path"]
    ELSE IF ~disk.writable THEN [disk |-> disk, err |-> "write"]
    ELSE [disk |-> [disk EXCEPT !.exists = TRUE,
                                !.readable = IF disk.exists THEN disk.readable ELSE TRUE,
                                !.data = Text(TRUE, Marshal(c))],
          err |-> ""]

(* SpecConfig: Load, and Save followed by Load, on the disks and the       *)
(* configurations below                                                    *)
TestConfig ==
    [Layout |-> <<10, 15, 7, 7, 11, 13, 19, 14, 14>>, PollRate |-> 4,
     RuntimeType |-> "podman", Socket |-> "/custom/socket", Shell |-> "/bin/bash"]

Configs ==
    {DefaultConfig, TestConfig, [TestConfig EXCEPT !.Shell = ""],
     [DefaultConfig EXCEPT !.Layout = [i \in 1..9 |-> 0], !.PollRate = 0, !.RuntimeType = ""]}

\* a mapping m without the key k
without(mapping, k) == [j \in DOMAIN mapping \ {k} |-> mapping[j]]

Documents ==
    {InvalidText, Text(TRUE, EmptyDoc)}
        \cup {Text(TRUE, Marshal(c)) : c \in Configs}
        \cup {Text(TRUE, [Marshal(TestConfig) EXCEPT !.exec = without(@, "shell")])}

Disks ==
    {Disk(pe, w, FALSE, FALSE, InvalidText) : pe \in BOOLEAN, w \in BOOLEAN}
        \cup {Disk(pe, w, TRUE, r, d) : pe \in BOOLEAN, w \in BOOLEAN, r \in BOOLEAN,
                                        d \in Documents}

InitConfig ==
    /\ m = InitialModel(NoFile)
    /\ cfgFile = NoFile
    /\ treeNav = "step"
    /\ inflight = EmptyBag
    /\ lastMsg = NoMsg
    /\ lastCmds = <<>>
    /\ lastIO = <<>>
    /\ quit = FALSE
    /\ ghost = NoGhost
    /\ call \in {[fn |-> "disk", arg |-> [disk |-> d, c |-> c], result |-> <<>>]
                    : d \in Disks, c \in Configs}

RunLoad ==
    /\ call.fn = "disk"
    /\ call' = [call EXCEPT !.fn = "Load", !.result = ConfigLoad(call.arg.disk)]
    /\ UNCHANGED m
    /\ StaysAtRest

RunSaveThenLoad ==
    /\ call.fn = "disk"
    /\ \E saved \in {ConfigSave(call.arg.disk, call.arg.c)} :
         call' = [call EXCEPT !.fn = "SaveLoad",
                              !.result = [save |-> saved, load |-> ConfigLoad(saved.disk)]]
    /\ UNCHANGED m
    /\ StaysAtRest

NextConfig ==
    \/ RunLoad
    \/ RunSaveThenLoad

SpecConfig == InitConfig /\ [][NextConfig]_vars

\* C26: Load never returns an error: when the settings file is missing,
\* unreadable or not valid YAML it returns exactly the built-in default
\* configuration (shell /bin/sh, runtime docker, default layout and poll
\* rate).
C26_LoadFallsBackToDefaults ==
    call.fn = "Load" =>
        /\ call.result.err = ""
        /\ (\/ ~call.arg.disk.exists
            \/ ~call.arg.disk.readable
            \/ ~call.arg.disk.data.valid) =>
               call.result.cfg =
                   [Layout |-> <<8, 14, 6, 6, 10, 12, 18, 13, 13>>, PollRate |-> 2,
                    RuntimeType |-> "docker", Socket |-> "", Shell |-> "/bin/sh"]

\* Load ran on a readable file that is not valid YAML and returned the
\* defaults without an error
C26_InvalidYamlLoaded ==
    /\ call.fn = "Load"
    /\ ~call.arg.disk.pathErr
    /\ call.arg.disk.exists
    /\ call.arg.disk.readable
    /\ ~call.arg.disk.data.valid
    /\ call.result = [cfg |-> DefaultConfig, err |-> ""]


\* the settings path resolves, the file can be written and, where it
\* exists already, read
usable(disk) == ~disk.pathErr /\ disk.writable /\ (disk.exists => disk.readable)

\* C27 as stated: for every configuration value c, c.Save() followed by
\* Load() succeeds and returns a configuration equal to c in every field.
C27_SaveThenLoadReturnsSame ==
    (call.fn = "SaveLoad" /\ usable(call.arg.disk)) =>
        /\ call.result.save.err = ""
        /\ call.result.load.err = ""
        /\ call.result.load.cfg = call.arg.c

\* C27 amended: for every configuration value c, c.Save() followed by
\* Load() succeeds and returns a configuration equal to c in every field
\* but the exec shell when c's is empty, which Load returns as /bin/sh.
C27_SaveThenLoadReturnsSavedWithShell ==
    (call.fn = "SaveLoad" /\ usable(call.arg.disk)) =>
        /\ call.result.save.err = ""
        /\ call.result.load.err = ""
        /\ call.result.load.cfg =
               IF call.arg.c.Shell = ""
               THEN [call.arg.c EXCEPT !.Shell = "/bin/sh"]
               ELSE call.arg.c

\* a configuration with an empty exec shell was saved over a file holding
\* other settings and loaded back with /bin/sh
C27_EmptyShellLoadedAsSh ==
    /\ call.fn = "SaveLoad"
    /\ usable(call.arg.disk)
    /\ call.arg.disk.exists
    /\ call.arg.disk.data = Text(TRUE, Marshal(DefaultConfig))
    /\ call.arg.c = [TestConfig EXCEPT !.Shell = ""]
    /\ call.result.load.cfg = [TestConfig EXCEPT !.Shell = "/bin/sh"]

\* in every other case of the disk, Save fails and leaves the file as it
\* was or the saved file cannot be read back and Load returns the defaults
SaveOrReadBackFails ==
    (call.fn = "SaveLoad" /\ ~usable(call.arg.disk)) =>
        \/ call.result.save.err # "" /\ call.result.save.disk = call.arg.disk
        \/ call.result.save.err = "" /\ call.result.load.cfg = DefaultConfig


----------------------------------------------------------------------------
(* Row navigation in the compose view *)

\* the compose view shows a tree with a container row and takes Up and Down
navigatesTree ==
    /\ m.composeViewMode
    /\ m.currentMode = modeComposeView
    /\ ~m.columnMode
    /\ containerRows(m) # {}

\* C28: in compose view, whenever the flattened tree has a container row,
\* an Up or Down key leaves the cursor on a container row, never on a
\* header: Down on the next container row after the cursor, Up on the
\* previous one, and at either end on the last / first container row.
C28_UpDownLandOnContainerRow ==
    navigatesTree =>
        LET rows == containerRows(m)
            after == {i \in rows : i > m.cursor}
            before == {i \in rows : i < m.cursor}
        IN /\ \A k \in Down :
                afterKey(k).cursor = IF after # {} THEN SetMin(after) ELSE SetMax(rows)
           /\ \A k \in Up :
                afterKey(k).cursor = IF before # {} THEN SetMax(before) ELSE SetMin(rows)

\* the cursor is on the last container row of a project and Down puts it on
\* the header of the next group
C28_DownLandsOnHeader ==
    /\ navigatesTree
    /\ onContainerRow(m)
    /\ \E k \in Down :
         /\ afterKey(k).cursor = m.cursor + 1
         /\ rowIsProject(afterKey(k), afterKey(k).cursor)


----------------------------------------------------------------------------
(* Pagination recomputation in the compose view *)

\* the model after the terminal is resized to h rows
afterResize(h) ==
    Update(m, WindowSizeMsg(h), [file |-> cfgFile, saveOk |-> TRUE, nav |-> treeNav]).m

\* C29: in compose view the pagination recomputation bounds the cursor by
\* the length of the flattened tree and derives the last page from it: a
\* cursor on any row of the tree, rows past the number of containers
\* included, is where it was after the recomputation, and the page
\* indicator counts the pages of the tree.
C29_RecomputationKeepsTreeCursor ==
    (m.composeViewMode /\ m.cursor < Len(m.flatList)) =>
        \A h \in NavHeights :
            /\ afterResize(h).cursor = m.cursor
            /\ afterResize(h).message[2] =
                   Max(0, GoDiv(Len(m.flatList) - 1, afterResize(h).maxContainersPerPage)) + 1

\* the cursor is on a row of the tree whose index is not less than the
\* number of containers, and a resize moves it to the row numbered as the
\* last container
C29_ResizePullsCursorBack ==
    /\ m.composeViewMode
    /\ m.cursor < Len(m.flatList)
    /\ m.cursor >= Len(m.containers)
    /\ Len(m.containers) > 0
    /\ \E h \in NavHeights : afterResize(h).cursor = Len(m.containers) - 1


----------------------------------------------------------------------------
(* The flattened tree against its inputs *)

\* what the rows of a tree show: headers with their counts, containers by
\* the values their pointers read
rowsShown(flatList) ==
    [i \in 1..Len(flatList) |->
        [isProject |-> flatList[i].isProject,
         projectName |-> flatList[i].projectName,
         container |-> flatList[i].container.val,
         running |-> flatList[i].running,
         total |-> flatList[i].total]]

\* C30: whenever compose view is active, the flattened tree equals the
\* tree rebuilt from the current containers, projects, expansion set and
\* sort order, whichever sub-mode or panel was active when the last
\* container list, compose projects or sort change was taken.
C30_TreeEqualsRebuild ==
    m.composeViewMode => rowsShown(m.flatList) = rowsShown(buildFlatList(m).flatList)

\* in compose view with no compose project, a container list of two taken
\* during column selection left the tree showing the three containers of
\* the list before
C30_ListTakenInColumnSelectLeftTree ==
    /\ m.composeViewMode
    /\ m.currentMode = modeColumnSelect
    /\ m.projects = NoProjects
    /\ m.containers = <<cA, cB>>
    /\ Len(m.flatList) = 4
    /\ m.flatList[1] = HeaderRow(StandaloneName, 0, 3)
    /\ {rowsShown(m.flatList)[i].container : i \in 2..4} = {cA, cB, cC}


----------------------------------------------------------------------------
(* Failed log fetches *)

\* C31: when a FetchLogs completion carries an error, the logs panel is not
\* visible afterwards, no lines of the failed fetch are displayed and the
\* failure is recorded as a status notice.
C31_LogsErrorClosesPanel ==
    (lastMsg.type = "Logs" /\ lastMsg.Err # "") =>
        /\ ~m.logsVisible
        /\ m.logsLines = <<>>
        /\ m.statusMessage = "Logs error"

\* the logs key opened the panel, the fetch it issued failed and the panel
\* is closed with the notice
C31_OpenedPanelClosedByError ==
    /\ lastMsg.type = "Logs"
    /\ lastMsg.Err # ""
    /\ lastMsg.ID = 1
    /\ m.currentMode = modeLogs
    /\ ~m.logsVisible
    /\ m.statusMessage = "Logs error"


----------------------------------------------------------------------------
(* Metrics: ListContainers with GetAllContainerStats                       *)
(* A container id is a sequence of characters.  The values of a stats      *)
(* record (CPUPerc, MemPerc, NetIO, BlockIO) are held as one field, the    *)
(* id of the container the engine measured; <<>> is the empty text of a    *)
(* container without metrics.                                              *)
ShortIdLen == 2       \* characters of an id the truncating engine reports

NoStats == <<>>

StatContainer(id, state, stats) == [ID |-> id, State |-> state, Stats |-> stats]

\* strings.HasPrefix(longID, s)
IdHasPrefix(longID, s) == Len(s) <= Len(longID) /\ SubSeq(longID, 1, Len(s)) = s

\* one line of the stats output: parsed by json.Unmarshal or not
statsEntry(ok, id, measured) == [ok |-> ok, ID |-> id, measured |-> measured]

\* the key a record is stored under
mapID(runtime, containerIDs, sid) ==
    IF runtime = "podman"
    THEN LET hits == {i \in DOMAIN containerIDs : IdHasPrefix(containerIDs[i], sid)}
         IN IF hits # {} THEN containerIDs[SetMin(hits)] ELSE sid
    ELSE sid

\* the scanner loop: lines that do not parse are skipped, a later record
\* replaces an earlier one under the same key
RECURSIVE scanStats(_, _, _, _)
scanStats(runtime, containerIDs, lines, statsMap) ==
    IF lines = <<>> THEN statsMap
    ELSE IF ~Head(lines).ok THEN scanStats(runtime, containerIDs, Tail(lines), statsMap)
    ELSE LET key == mapID(runtime, containerIDs, Head(lines).ID)
         IN scanStats(runtime, containerIDs, Tail(lines),
                      [k \in DOMAIN statsMap \cup {key} |->
                          IF k = key THEN Head(lines).measured ELSE statsMap[k]])

NoStatsMap == [k \in {} |-> NoStats]

\* the id under which the engine reports the container id
reportedID(runtime, id) ==
    IF runtime = "podman" THEN SubSeq(id, 1, Min(ShortIdLen, Len(id))) ELSE id

\* the lines the engine prints for the ids asked: a record for each id it
\* does not pass over, after a line that is no record when junk is set
RECURSIVE engineLines(_, _, _)
engineLines(runtime, containerIDs, engine) ==
    IF containerIDs = <<>> THEN <<>>
    ELSE (IF Head(containerIDs) \in engine.silent THEN <<>>
          ELSE <<statsEntry(TRUE, reportedID(runtime, Head(containerIDs)), Head(containerIDs))>>)
         \o engineLines(runtime, Tail(containerIDs), engine)

statsOutput(runtime, containerIDs, engine) ==
    (IF engine.junk THEN <<statsEntry(FALSE, <<>>, NoStats)>> ELSE <<>>)
        \o engineLines(runtime, containerIDs, engine)

GetAllContainerStats(runtime, containerIDs, engine) ==
    IF Len(containerIDs) = 0 THEN [stats |-> NoStatsMap, err |-> ""]
    ELSE IF engine.err THEN [stats |-> NoStatsMap, err |-> "stats"]
    ELSE [stats |-> scanStats(runtime, containerIDs,
                              statsOutput(runtime, containerIDs, engine), NoStatsMap),
          err |-> ""]

runningIDsOf(out) ==
    LET running == SelectSeq(out, LAMBDA c : c.State = "running")
    IN [i \in DOMAIN running |-> running[i].ID]

\* a listing that asks for the metrics of every container listed
listWithStatsOfAll(runtime, out, engine) ==
    LET ids == [i \in DOMAIN out |-> out[i].ID]
        r == GetAllContainerStats(runtime, ids, engine)
    IN IF Len(ids) > 0
       THEN [containers |-> IF r.err = ""
                            THEN [i \in DOMAIN out |->
                                     IF out[i].ID \in DOMAIN r.stats
                                     THEN [out[i] EXCEPT !.Stats = r.stats[out[i].ID]]
                                     ELSE out[i]]
                            ELSE out,
             err |-> "", queries |-> <<ids>>]
       ELSE [containers |-> out, err |-> "", queries |-> <<>>]

\* the end of ListContainers: out holds the containers listed, each with
\* its normalized state and no metrics
listWithStats(runtime, out, engine) ==
    LET runningIDs == runningIDsOf(out)
        r == GetAllContainerStats(runtime, runningIDs, engine)
    IN IF Len(runningIDs) > 0
       THEN [containers |-> IF r.err = ""
                            THEN [i \in DOMAIN out |->
                                     IF out[i].ID \in DOMAIN r.stats
                                     THEN [out[i] EXCEPT !.Stats = r.stats[out[i].ID]]
                                     ELSE out[i]]
                            ELSE out,
             err |-> "", queries |-> <<runningIDs>>]
       ELSE [containers |-> out, err |-> "", queries |-> <<>>]

(* SpecStats: the listings and the engines the merge is applied to *)
idA == <<"a", "b", "x", "c">>
idB == <<"a", "b", "x", "d">>
idC == <<"c", "d", "x", "a">>
StatIds == {idA, idB, idC}

\* sequences of up to MaxRecords containers with different ids
StatListings ==
    UNION {{out \in [1..n -> {StatContainer(id, state, NoStats)
                                 : id \in StatIds, state \in {"running", "exited"}}] :
               \A i, j \in 1..n : i # j => out[i].ID # out[j].ID}
              : n \in 0..Min(MaxRecords, Cardinality(StatIds))}

Engines ==
    {[err |-> e, junk |-> j, silent |-> s] :
        e \in BOOLEAN, j \in BOOLEAN, s \in SUBSET StatIds}

InitStats ==
    /\ m = InitialModel(NoFile)
    /\ cfgFile = NoFile
    /\ treeNav = "step"
    /\ inflight = EmptyBag
    /\ lastMsg = NoMsg
    /\ lastCmds = <<>>
    /\ lastIO = <<>>
    /\ quit = FALSE
    /\ ghost = NoGhost
    /\ call \in {[fn |-> "listed", arg |-> [runtime |-> rt, out |-> out, engine |-> en],
                  result |-> <<>>] : rt \in runtimeBin, out \in StatListings, en \in Engines}

RunListWithStats ==
    /\ call.fn = "listed"
    /\ call' = [call EXCEPT !.fn = "listWithStats",
                            !.result = listWithStats(call.arg.runtime, call.arg.out,
                                                     call.arg.engine)]
    /\ UNCHANGED m
    /\ StaysAtRest

NextStats == RunListWithStats

SpecStats == InitStats /\ [][NextStats]_vars

\* the metrics query of the listing returned a record under an id that
\* names the container c: the id itself, or a prefix of it from the
\* truncating engine
recordReturnedFor(c) ==
    /\ c.State = "running"
    /\ ~call.arg.engine.err
    /\ \E id \in Range(runningIDsOf(call.arg.out)) \ call.arg.engine.silent :
          LET rid == reportedID(call.arg.runtime, id)
          IN IF call.arg.runtime = "podman" THEN IdHasPrefix(c.ID, rid) ELSE rid = c.ID

\* C32: a container listing issues at most one metrics query, for exactly
\* the ids of the containers whose normalized state is running; a container
\* that is not running, or for which the query returns no record, keeps
\* absent metrics; a failure of the metrics query does not fail the listing.
C32_OneQueryForRunningIds ==
    call.fn = "listWithStats" =>
        LET out == call.arg.out
            res == call.result
            running == {out[i].ID : i \in {j \in DOMAIN out : out[j].State = "running"}}
        IN /\ Len(res.queries) <= 1
           /\ \A q \in Range(res.queries) : Range(q) = running /\ Len(q) = Cardinality(running)
           /\ running # {} => Len(res.queries) = 1
           /\ res.err = ""
           /\ DOMAIN res.containers = DOMAIN out
           /\ \A i \in DOMAIN out :
                /\ res.containers[i].ID = out[i].ID
                /\ res.containers[i].State = out[i].State
                /\ ~recordReturnedFor(out[i]) => res.containers[i].Stats = NoStats

\* a listing of a running container the engine reports, a running one it
\* passes over and an exited one: one query for the two running ids, and
\* metrics on the first container only
C32_OneOfTwoRunningReported ==
    /\ call.fn = "listWithStats"
    /\ call.arg.runtime = "podman"
    /\ call.arg.out = <<StatContainer(idA, "running", NoStats),
                        StatContainer(idB, "exited", NoStats),
                        StatContainer(idC, "running", NoStats)>>
    /\ call.arg.engine = [err |-> FALSE, junk |-> TRUE, silent |-> {idC}]
    /\ call.result.queries = <<(<<idA, idC>>)>>
    /\ call.result.containers = <<StatContainer(idA, "running", idA),
                                  StatContainer(idB, "exited", NoStats),
                                  StatContainer(idC, "running", NoStats)>>


\* C33: for the engine whose metrics stream reports truncated ids, every
\* record is merged into the container whose full id starts with the
\* reported id: each running container the engine reports receives its own
\* record and no container holds the record of another.
C33_RecordsMergedByPrefix ==
    (call.fn = "listWithStats" /\ call.arg.runtime = "podman" /\ ~call.arg.engine.err) =>
        \A i \in DOMAIN call.result.containers :
            LET c == call.result.containers[i]
            IN /\ c.Stats # NoStats => c.Stats = c.ID
               /\ (c.State = "running" /\ c.ID \notin call.arg.engine.silent) => c.Stats = c.ID

\* two running containers whose ids start with the same reported
\* characters: the first holds the record of the second, the second none
C33_RecordOfAnotherContainer ==
    /\ call.fn = "listWithStats"
    /\ call.arg.runtime = "podman"
    /\ call.arg.out = <<StatContainer(idA, "running", NoStats),
                        StatContainer(idB, "running", NoStats)>>
    /\ call.arg.engine = [err |-> FALSE, junk |-> FALSE, silent |-> {}]
    /\ call.result.containers = <<StatContainer(idA, "running", idB),
                                  StatContainer(idB, "running", NoStats)>>

\* where no two ids asked for start with the same reported characters,
\* the records are merged as C33 says
RecordsMergedForDistinctPrefixes ==
    (call.fn = "listWithStats" /\ call.arg.runtime = "podman" /\ ~call.arg.engine.err
        /\ \A i, j \in DOMAIN call.arg.out :
              i # j => reportedID("podman", call.arg.out[i].ID)
                          # reportedID("podman", call.arg.out[j].ID)) =>
        \A i \in DOMAIN call.result.containers :
            LET c == call.result.containers[i]
            IN /\ c.Stats # NoStats => c.Stats = c.ID
               /\ (c.State = "running" /\ c.ID \notin call.arg.engine.silent) => c.Stats = c.ID


----------------------------------------------------------------------------
(* Visible length and truncation of styled text                            *)
(* A string is the sequence of its runes; "ESC" is \x1b and "ellipsis"     *)
(* the one-rune ellipsis.                                                  *)
MaxText == 5          \* pieces of a text
MaxTruncWidth == 3    \* widths a text is truncated to

\* the loop of visibleLen from rune i on
RECURSIVE visibleFrom(_, _, _, _)
visibleFrom(s, i, inEscape, count) ==
    IF i > Len(s) THEN count
    ELSE IF s[i] = "ESC" THEN visibleFrom(s, i + 1, TRUE, count)
    ELSE IF inEscape /\ s[i] = "m" THEN visibleFrom(s, i + 1, FALSE, count)
    ELSE IF ~inEscape THEN visibleFrom(s, i + 1, inEscape, count + 1)
    ELSE visibleFrom(s, i + 1, inEscape, count)

visibleLen(s) == visibleFrom(s, 1, FALSE, 0)

\* the loop of truncateToWidth from rune i on
RECURSIVE truncateFrom(_, _, _, _, _, _)
truncateFrom(s, i, targetWidth, inEscape, visCount, result) ==
    IF i > Len(s) THEN result
    ELSE IF s[i] = "ESC"
    THEN truncateFrom(s, i + 1, targetWidth, TRUE, visCount, Append(result, s[i]))
    ELSE IF inEscape
    THEN truncateFrom(s, i + 1, targetWidth, s[i] # "m", visCount, Append(result, s[i]))
    ELSE IF visCount >= targetWidth THEN result
    ELSE truncateFrom(s, i + 1, targetWidth, inEscape, visCount + 1, Append(result, s[i]))

truncateToWidth(s, width) ==
    IF width < 1 THEN <<>>
    ELSE IF visibleLen(s) <= width THEN s
    ELSE IF width - 1 < 1 THEN <<"ellipsis">>
    ELSE Append(truncateFrom(s, 1, width - 1, FALSE, 0, <<>>), "ellipsis")

(* SpecText: truncateToWidth on the texts of up to MaxText pieces: visible *)
(* runes, the style reset, the bold style and an escape that is not closed *)
StyleReset == <<"ESC", "[", "0", "m">>
StyleBold == <<"ESC", "[", "1", "m">>

TextPieces == {<<"x">>, <<"m">>, StyleReset, StyleBold, <<"ESC", "[">>}

RECURSIVE Flat(_)
Flat(pieces) == IF pieces = <<>> THEN <<>> ELSE Head(pieces) \o Flat(Tail(pieces))

Texts == UNION {{Flat(ps) : ps \in [1..n -> TextPieces]} : n \in 0..MaxText}

InitText ==
    /\ m = InitialModel(NoFile)
    /\ cfgFile = NoFile
    /\ treeNav = "step"
    /\ inflight = EmptyBag
    /\ lastMsg = NoMsg
    /\ lastCmds = <<>>
    /\ lastIO = <<>>
    /\ quit = FALSE
    /\ ghost = NoGhost
    /\ call \in {[fn |-> "styled", arg |-> [s |-> s, width |-> w], result |-> <<>>]
                    : s \in Texts, w \in 1..MaxTruncWidth}

RunTruncateToWidth ==
    /\ call.fn = "styled"
    /\ call' = [call EXCEPT !.fn = "truncateToWidth",
                            !.result = truncateToWidth(call.arg.s, call.arg.width)]
    /\ UNCHANGED m
    /\ StaysAtRest

NextText == RunTruncateToWidth

SpecText == InitText /\ [][NextText]_vars

\* the runes of s outside escape sequences
RECURSIVE visibleText(_, _)
visibleText(s, inEscape) ==
    IF s = <<>> THEN <<>>
    ELSE IF Head(s) = "ESC" THEN visibleText(Tail(s), TRUE)
    ELSE IF inEscape THEN visibleText(Tail(s), Head(s) # "m")
    ELSE <<Head(s)>> \o visibleText(Tail(s), FALSE)

\* s ends with a style reset that follows visible text or a closed escape
endsWithReset(s) ==
    /\ Len(s) >= Len(StyleReset)
    /\ SubSeq(s, Len(s) - Len(StyleReset) + 1, Len(s)) = StyleReset
    /\ Len(visibleText(s, FALSE))
         = Len(visibleText(SubSeq(s, 1, Len(s) - Len(StyleReset)) \o <<"x">>, FALSE)) - 1

containsReset(s) ==
    \E i \in 1..(Len(s) - Len(StyleReset) + 1) :
        SubSeq(s, i, i + Len(StyleReset) - 1) = StyleReset

\* C34: for every string s and width w >= 1, truncateToWidth returns s
\* unchanged when its visible length is at most w; otherwise it returns a
\* string of visible length at most w whose visible text ends with an
\* ellipsis and which still contains a trailing style reset of s; escape
\* sequences never count toward the visible length.
C34_TruncationKeepsTrailingReset ==
    call.fn = "truncateToWidth" =>
        LET s == call.arg.s
            w == call.arg.width
            res == call.result
        IN /\ visibleLen(s) = Len(visibleText(s, FALSE))
           /\ IF visibleLen(s) <= w THEN res = s
              ELSE /\ Len(visibleText(res, FALSE)) <= w
                   /\ visibleText(res, FALSE) # <<>>
                   /\ visibleText(res, FALSE)[Len(visibleText(res, FALSE))] = "ellipsis"
                   /\ endsWithReset(s) => containsReset(res)

\* three bold runes closed by a style reset, truncated to width 2: the
\* bold style, one rune and the ellipsis, and the reset is gone
C34_TrailingResetDropped ==
    /\ call.fn = "truncateToWidth"
    /\ call.arg.s = StyleBold \o <<"x", "x", "x">> \o StyleReset
    /\ call.arg.width = 2
    /\ call.result = StyleBold \o <<"x", "ellipsis">>

\* everything C34 says but the trailing reset
TruncationFitsWidth ==
    call.fn = "truncateToWidth" =>
        LET s == call.arg.s
            w == call.arg.width
            res == call.result
        IN /\ visibleLen(s) = Len(visibleText(s, FALSE))
           /\ IF visibleLen(s) <= w THEN res = s
              ELSE /\ Len(visibleText(res, FALSE)) <= w
                   /\ visibleText(res, FALSE) # <<>>
                   /\ visibleText(res, FALSE)[Len(visibleText(res, FALSE))] = "ellipsis"

\* a text longer than the width that ends with a style reset never keeps it
TrailingResetNeverKept ==
    (call.fn = "truncateToWidth" /\ visibleLen(call.arg.s) > call.arg.width
        /\ endsWithReset(call.arg.s)) =>
        ~endsWithReset(call.result)


----------------------------------------------------------------------------
(* The Tick timers pending *)

\* C35: from startup until quit exactly one Tick timer is pending at any
\* time: a Tick processed schedules one successor and no key handler
\* schedules another.
C35_OneTickPending == ~quit => CountWhere(inflight, {"tick"}) = 1

\* the c key entered the compose view and two Tick timers are pending
C35_ComposeKeyAddedTick ==
    /\ ~quit
    /\ m.composeViewMode
    /\ m.statusMessage = "Switched to Compose view "
    /\ CountWhere(inflight, {"tick"}) = 2

\* every Tick processed returns exactly one Tick
TickSchedulesOneSuccessor ==
    Cardinality({i \in DOMAIN Update(m, tickMsg, [file |-> cfgFile, saveOk |-> TRUE,
                                                  nav |-> treeNav]).cmds :
                    Update(m, tickMsg, [file |-> cfgFile, saveOk |-> TRUE,
                                        nav |-> treeNav]).cmds[i].cmd = "tick"}) = 1


----------------------------------------------------------------------------
(* The mode field against the flags *)

\* C36: the mode field never names a mode whose own flag is off: Logs
\* implies the logs panel is visible, Info the info panel, ColumnSelect the
\* column mode and ComposeView the compose view.
C36_ModeImpliesFlag ==
    /\ m.currentMode = modeLogs => m.logsVisible
    /\ m.currentMode = modeInfo => m.infoVisible
    /\ m.currentMode = modeColumnSelect => m.columnMode
    /\ m.currentMode = modeComposeView => m.composeViewMode

\* a failed log fetch closed the logs panel and the mode is still Logs
C36_LogsModeWithPanelClosed ==
    /\ m.currentMode = modeLogs
    /\ ~m.logsVisible
    /\ m.statusMessage = "Logs error"


----------------------------------------------------------------------------
(* Container actions from the Settings and Help screens *)

\* the commands Update returns for the key
cmdsOfKey(key) ==
    Update(m, KeyMsg(key), [file |-> cfgFile, saveOk |-> TRUE, nav |-> treeNav]).cmds

ActionKeys == Start \cup Stop \cup Restart \cup Remove \cup Exec

\* C37: while the mode is Settings or Help no key press dispatches a
\* PerformAction (start, stop, restart, rm) or opens an exec session on the
\* container under the cursor.
C37_NoActionFromSettingsOrHelp ==
    m.currentMode \in {modeSettings, modeHelp} =>
        \A key \in ActionKeys \cup SettingsKeys :
            \A i \in DOMAIN cmdsOfKey(key) : cmdsOfKey(key)[i].cmd \notin {"doAction", "exec"}

\* the Settings screen is open over a list with a container under the
\* cursor, and x stops that container
C37_StopFromSettings ==
    /\ m.currentMode = modeSettings
    /\ ~m.composeViewMode
    /\ Len(m.containers) > 0
    /\ \E key \in Stop :
         cmdsOfKey(key) = <<doAction("stop", m.containers[m.cursor + 1].ID)>>

\* in Settings the start key saves the settings and starts nothing
SaveKeyStartsNothing ==
    m.currentMode = modeSettings =>
        \A key \in Start :
            \A i \in DOMAIN cmdsOfKey(key) : cmdsOfKey(key)[i].cmd \notin {"doAction", "exec"}


----------------------------------------------------------------------------
(* SpecLogs: the logs panel against the log fetches in flight.  The        *)
(* variable call notes the container the logs key last opened the panel on, *)
(* until the logs key closes the panel again.                              *)
Opened(id) == [fn |-> "opened", arg |-> id, result |-> <<>>]

\* the logs key is pressed: the panel opens on the container under the
\* cursor, closes, or stays as it is
PressLogsNoted ==
    /\ foreground
    /\ \E k \in {"l", "L"} :
         /\ Turn(KeyMsg(k), EmptyBag, EmptyBag, TRUE)
         /\ \E cmds \in {Update(m, KeyMsg(k), [file |-> cfgFile, saveOk |-> TRUE,
                                               nav |-> treeNav]).cmds} :
              call' = IF cmds # <<>> THEN Opened(cmds[1].id)
                      ELSE IF m.logsVisible /\ ~m'.logsVisible THEN NoCall
                      ELSE call

NextLogs ==
    \/ ContainersDone
    \/ LogsDone
    \/ TickFires
    \/ PressDown
    \/ PressLogsNoted

SpecLogs == Init /\ [][NextLogs]_vars

logsInFlight == CountWhere(inflight, {"fetchLogs"})

\* C38: after the user opens the logs panel on container X and every
\* FetchLogs in flight has completed, the panel's container id and log
\* lines are those of X, whatever the interleaving with ticks and with log
\* fetches issued for a container viewed before.
C38_PanelShowsOpenedContainer ==
    (call.fn = "opened" /\ logsInFlight = 0 /\ m.logsVisible) =>
        /\ m.logsContainer = call.arg
        /\ m.logsLines \in LogLines(call.arg)

\* the panel was opened on container 2 and, every fetch delivered, shows
\* the lines of container 1
C38_PanelShowsEarlierContainer ==
    /\ call = Opened(2)
    /\ logsInFlight = 0
    /\ m.logsVisible
    /\ m.logsContainer = 1
    /\ m.logsLines = <<1>>


\* the model after the completion msg of a command in flight is processed
afterCompletion(msg) ==
    Update(m, msg, [file |-> cfgFile, saveOk |-> TRUE, nav |-> treeNav]).m

\* the user closed the logs panel with the logs key or Esc and has pressed
\* no key since
closedByUser == ~m.logsVisible /\ m.statusMessage = "Logs closed"

\* C39: once the user closes the logs panel it stays closed until the user
\* presses the logs key again: the completion of a FetchLogs issued before
\* the close never makes the panel visible.
C39_ClosedPanelStaysClosed ==
    closedByUser =>
        \A c \in BagToSet(inflight) :
            c.cmd = "fetchLogs" =>
                \A msg \in cmdRun(c) : ~afterCompletion(msg).logsVisible

\* the panel was closed by the user while a FetchLogs was in flight, and
\* its result opens the panel again
C39_LateResultReopensPanel ==
    /\ closedByUser
    /\ call = NoCall
    /\ \E c \in BagToSet(inflight) :
         /\ c.cmd = "fetchLogs"
         /\ afterCompletion(LogsMsg(c.id, <<c.id>>, "")).logsVisible
         /\ afterCompletion(LogsMsg(c.id, <<c.id>>, "")).logsContainer = c.id


----------------------------------------------------------------------------
(* SpecCancel: an edit session of the Settings screen left with Esc.  The  *)
(* variable call notes the settings held when the screen was entered.      *)
Entered(settings) == [fn |-> "entered", arg |-> settings, result |-> <<>>]
Cancelled(settings) == [fn |-> "cancelled", arg |-> settings, result |-> <<>>]

\* F2 opens the Settings screen, or closes it keeping the edits
PressF2Noted ==
    /\ foreground
    /\ Turn(KeyMsg("f2"), EmptyBag, EmptyBag, TRUE)
    /\ call' = IF m.currentMode # modeSettings THEN Entered(m.settings) ELSE NoCall

\* Esc leaves the Settings screen
PressEscNoted ==
    /\ foreground
    /\ Turn(KeyMsg("esc"), EmptyBag, EmptyBag, TRUE)
    /\ call' = IF m.currentMode = modeSettings /\ call.fn = "entered"
               THEN Cancelled(call.arg) ELSE call

NextCancel ==
    \/ PressF2Noted
    \/ PressEscNoted
    \/ PressDown
    \/ PressPlus

SpecCancel == Init /\ [][NextCancel]_vars

\* C40: leaving Settings with Esc cancels the edit session: the column
\* percentages, refresh interval, runtime and shell held after Esc equal
\* their values at the moment Settings was entered.
C40_EscRestoresSettings ==
    (call.fn = "cancelled" /\ m.currentMode # modeSettings) =>
        /\ m.settings.ColumnPercents = call.arg.ColumnPercents
        /\ m.settings.RefreshInterval = call.arg.RefreshInterval
        /\ m.settings.Runtime = call.arg.Runtime
        /\ m.settings.Shell = call.arg.Shell

\* Settings was entered with the default percentages, the first one was
\* raised, and after Esc the raised value is held
C40_EditKeptAfterEsc ==
    /\ call.fn = "cancelled"
    /\ m.currentMode = modeNormal
    /\ m.statusMessage = "Settings closed"
    /\ call.arg.ColumnPercents = DefaultPercents
    /\ m.settings.ColumnPercents[1] = DefaultPercents[1] + 1

====
